---- MODULE Spec2Model ----
(***************************************************************************)
(* Translation / retry / cache pipeline of cyber-mysql-openai.             *)
(*                                                                         *)
(* One orchestrator (CyberMySQLOpenAI) with its MemoryCache, the database  *)
(* client and the completion service as nondeterministic collaborators.   *)
(* A query() call is a process whose position (pc) is the await it is     *)
(* suspended at; everything the code does between two awaits is one step.  *)
(*                                                                         *)
(* SQL text is modelled as a sequence of tokens (upper-cased keywords,     *)
(* identifiers as written); the key of a question is computed from its       *)
(* characters.                                                             *)
(* Time is counted in units of 300000 ms.                                  *)
(***************************************************************************)
EXTENDS Integers, Sequences, FiniteSets, TLC

\* ------------------------------------------------------------------ bounds
MaxCeiling == 2        \* configured maxReflections ranges over 1..MaxCeiling
MaxQueries == 2        \* query() calls started in one behaviour
MaxTime    == 2        \* the clock runs from 0 to MaxTime (units of TimeUnitMs)
MaxHostOps == 1        \* host operations (ticks, management calls) in one behaviour

\* ------------------------------------------------------- program constants
DEFAULT_MAX_REFLECTIONS == 3
TimeUnitMs == 300000
TTL_SCHEMA_MS == 3600000
TTL_AGGREGATE_MS == 900000
TTL_DEFAULT_MS == 300000

\* --------------------------------------------------------------- data sets
Calls == {"c1"}

Languages == {"en", "es"}

\* Table sets the metadata query can report (the live schema may change).
SchemaA == {"users"}
SchemaB == {"users", "orders"}
Schemas == {SchemaA, SchemaB}

\* Natural-language questions, and the characters each is written with.
Prompts == {"Users?", "orders 5"}
QuestionText(p) ==
    IF p = "Users?" THEN <<"U", "s", "e", "r", "s", "?">>
    ELSE <<"o", "r", "d", "e", "r", "s", " ", "5">>

\* SQL statements the completion service may produce.
SqlUsers  == <<"SELECT", "name", "FROM", "users">>
SqlGhosts == <<"SELECT", "name", "FROM", "ghosts">>
SqlUpdate == <<"UPDATE", "users", "SET", "name">>
SqlFenced == <<"FENCE_SQL">> \o SqlUsers \o <<"FENCE">>
SqlCandidates == {SqlUsers, SqlGhosts, SqlUpdate}

\* Row sets the database may return.
NoRows   == <<>>
SomeRows == <<"row">>
RowSets  == {NoRows, SomeRows}

\* Error messages.
ErrDb        == "ER_NO_SUCH_TABLE"
ErrReadOnly  == "Only SELECT, SHOW, DESCRIBE, and EXPLAIN queries are allowed in read-only mode"
ErrReflect   == "Failed to generate reflection: service error"
ErrGenerate  == "Failed to generate SQL: service error"
ErrSchema    == "schema metadata query failed"

\* What the catch block of a structured request can be entered with (fcError):
\* a rejection of the completion request, the Error thrown when the reply
\* holds no tool call, the SyntaxError of JSON.parse on the arguments.
ErrService     == "service error"
ErrNoToolCalls == "No tool_calls in response"
ErrJsonParse   == "Unexpected token in JSON"
FcErrors == {ErrService, ErrNoToolCalls, ErrJsonParse}

\* Messages of the response formatter.
MsgNoResults      == "noResultsFound"
MsgQueryCompleted == "queryCompleted"
MsgExplanation    == "explanation"
MsgOpenAIError    == "openaiError"
MsgDetailed       == "detailed explanation"

NoValue == "none"

\* ------------------------------------------------------------ pure helpers
Last(s) == s[Len(s)]

SeqContains(s, tok) == \E i \in 1..Len(s) : s[i] = tok

\* config.maxReflections || DEFAULT_MAX_REFLECTIONS ; 0 stands for "absent or 0"
EffectiveMaxReflections(cfg) == IF cfg = 0 THEN DEFAULT_MAX_REFLECTIONS ELSE cfg

\* DBManager.executeReadOnlyQuery: the prefix test made before the server is contacted
ReadVerbs == {"SELECT", "SHOW", "DESCRIBE", "DESC", "EXPLAIN"}

\* String.toUpperCase on a token (toLowerCase on both sides of a comparison
\* decides the same): the tokens written with small letters, one by one
UpperToken(tok) ==
    IF tok \in {"SELECT", "FROM", "UPDATE", "SET", "COUNT(*)", "SHOW", "TABLES"} THEN tok
    ELSE
    CASE tok = "select" -> "SELECT" [] tok = "update" -> "UPDATE"
      [] tok = "drop" -> "DROP" [] tok = "from" -> "FROM"
      [] tok = "describe" -> "DESCRIBE" [] tok = "count(*)" -> "COUNT(*)"
      [] tok = "group" -> "GROUP" [] tok = "by" -> "BY"
      [] tok = "name" -> "NAME" [] tok = "users" -> "USERS"
      [] tok = "Users" -> "USERS" [] tok = "orders" -> "ORDERS"
      [] tok = "ghosts" -> "GHOSTS" [] tok = "products" -> "PRODUCTS"
      [] tok = "users_archive" -> "USERS_ARCHIVE"
      [] tok = "updated_at" -> "UPDATED_AT"
      [] tok = "described_at" -> "DESCRIBED_AT"
      [] tok = "credit_limit" -> "CREDIT_LIMIT"
      [] tok = "users.age" -> "USERS.AGE"
      [] OTHER -> tok

\* the fragments String.includes can find inside one upper-cased token, besides
\* the token itself
TextParts(tok) ==
    CASE tok = "COUNT(*)" -> {"COUNT("}
      [] tok = "SUM(PRICE)" -> {"SUM("}
      [] tok = "AVG(PRICE)" -> {"AVG("}
      [] tok = "MIN(PRICE)" -> {"MIN("}
      [] tok = "MAX(PRICE)" -> {"MAX("}
      [] tok = "INFORMATION_SCHEMA.TABLES" -> {"INFORMATION_SCHEMA", "TABLES"}
      [] tok = "USERS_ARCHIVE" -> {"USERS", "ARCHIVE"}
      [] tok = "UPDATED_AT" -> {"UPDATE", "UPDATED"}
      [] tok = "DESCRIBED_AT" -> {"DESCRIBE", "DESCRIBED"}
      [] tok = "CREDIT_LIMIT" -> {"CREDIT", "LIMIT"}
      [] tok = "USERS.AGE" -> {"USERS", "AGE"}
      [] OTHER -> {}

\* text.toUpperCase().includes(pat) for a pattern without blanks
TextIncludes(sql, pat) ==
    \E i \in 1..Len(sql) :
        \E upper \in {UpperToken(sql[i])} : upper = pat \/ pat \in TextParts(upper)

\* text.toUpperCase().includes("A B"): two neighbouring tokens (tokens are
\* taken to be one blank apart)
TextIncludesPair(sql, a, b) ==
    \E i \in 1..(Len(sql) - 1) :
        UpperToken(sql[i]) = a /\ UpperToken(sql[i + 1]) = b

\* extractTablesFromSQL: the identifier following FROM or JOIN (/gi)
ExtractTablesFromSQL(sql) ==
    { sql[i + 1] : i \in { j \in 1..(Len(sql) - 1) :
                               UpperToken(sql[j]) \in {"FROM", "JOIN"} } }

DangerousKeywords == {"INSERT", "UPDATE", "DELETE", "DROP", "CREATE", "ALTER",
                      "TRUNCATE", "EXEC", "EXECUTE"}

\* validateQuery: the errors of the verdict, each message as its words.  A
\* statement that does not start with SELECT gets the one message of step 1
\* and the function returns; otherwise one message per denylisted keyword
\* found as a whole word (/\bKEYWORD\b/i) and one per unknown table.
ValidateQueryErrors(sql, schema) ==
    IF ~(Len(sql) > 0 /\ UpperToken(sql[1]) = "SELECT")
    THEN { <<"Solo", "se", "permiten", "consultas", "SELECT">> }
    ELSE { <<"Operacion", "peligrosa", "detectada:", k>> :
             k \in { d \in DangerousKeywords :
                       \E i \in 1..Len(sql) : UpperToken(sql[i]) = d } }
         \cup
         { <<"Tabla", t, "no", "encontrada", "en", "el", "esquema">> :
             t \in { x \in ExtractTablesFromSQL(sql) :
                       UpperToken(x) \notin { UpperToken(n) : n \in schema } } }

\* extractColumnsFromSQL: the table.column references, as <<table, column>>
ExtractColumnsFromSQL(sql) ==
    { IF sql[i] = "users.age" THEN <<"users", "age">>
      ELSE <<"INFORMATION_SCHEMA", "TABLES">> :
        i \in { j \in 1..Len(sql) : sql[j] \in {"users.age", "INFORMATION_SCHEMA.TABLES"} } }

\* schema[table].columns, lower-cased: the columns the tables are taken to have
TableColumns(table) == IF table = "users" THEN {"name", "credit_limit"} ELSE {"id"}

\* validateQuery: the warnings of the verdict, each message as its words.
\* None for a statement rejected at step 1; otherwise one per qualified column
\* the schema does not know (step 5), one when the text holds none of LIMIT,
\* COUNT(, SUM(, AVG(, MAX(, MIN( (step 6), one when there are more JOINs than
\* ONs (step 7).
ValidateQueryWarnings(sql, schema) ==
    IF ~(Len(sql) > 0 /\ UpperToken(sql[1]) = "SELECT")
    THEN {}
    ELSE LET count(word) == Cardinality({ i \in 1..Len(sql) : UpperToken(sql[i]) = word })
         IN { <<"La", "columna", r[2], "podria", "no", "existir", "en", "la", "tabla", r[1]>> :
                r \in { x \in ExtractColumnsFromSQL(sql) :
                          /\ x[1] \in schema
                          /\ x[2] \notin TableColumns(x[1]) } }
              \cup
              (IF \A pat \in {"LIMIT", "COUNT(", "SUM(", "AVG(", "MAX(", "MIN("} :
                     ~TextIncludes(sql, pat)
               THEN { <<"La", "consulta", "no", "tiene", "clausula", "LIMIT">> }
               ELSE {})
              \cup
              (IF count("JOIN") > 0 /\ count("ON") < count("JOIN")
               THEN { <<"Posible", "producto", "cartesiano">> }
               ELSE {})

\* validateQuery: the valid flag of the verdict (errors.length === 0)
ValidateQueryValid(sql, schema) == ValidateQueryErrors(sql, schema) = {}

\* faulty variant: the aggregate test is made before the metadata test
GetTTLByQueryTypeAggregateFirst(sql) ==
    IF \/ TextIncludes(sql, "COUNT(") \/ TextIncludes(sql, "SUM(")
       \/ TextIncludes(sql, "AVG(")
       \/ TextIncludesPair(sql, "GROUP", "BY")
    THEN TTL_AGGREGATE_MS \div TimeUnitMs
    ELSE IF \/ TextIncludesPair(sql, "SHOW", "TABLES")
            \/ TextIncludes(sql, "DESCRIBE")
            \/ TextIncludes(sql, "INFORMATION_SCHEMA")
         THEN TTL_SCHEMA_MS \div TimeUnitMs
         ELSE TTL_DEFAULT_MS \div TimeUnitMs

\* MemoryCache.getTTLByQueryType, in units of TimeUnitMs
GetTTLByQueryType(sql) ==
    IF \/ TextIncludesPair(sql, "SHOW", "TABLES")
       \/ TextIncludes(sql, "DESCRIBE")
       \/ TextIncludes(sql, "INFORMATION_SCHEMA")
    THEN TTL_SCHEMA_MS \div TimeUnitMs
    ELSE IF \/ TextIncludes(sql, "COUNT(") \/ TextIncludes(sql, "SUM(")
            \/ TextIncludes(sql, "AVG(")
            \/ TextIncludesPair(sql, "GROUP", "BY")
         THEN TTL_AGGREGATE_MS \div TimeUnitMs
         ELSE TTL_DEFAULT_MS \div TimeUnitMs

\* generateSchemaHash: fingerprint of the serialized snapshot, a number written
\* with toString(36) (digits and small letters only)
GenerateSchemaHash(schema) == IF schema = SchemaA THEN "fpusers" ELSE "fpusersorders"

\* ---- generateKey (memoryCache.ts 57-68), step by step on characters
\* String.toLowerCase, for the capital letters questions are written with
ToLowerCase(ch) ==
    IF ch = "S" THEN "s" ELSE IF ch = "U" THEN "u" ELSE IF ch = "O" THEN "o" ELSE ch

LowerCased(s) == [i \in 1..Len(s) |-> ToLowerCase(s[i])]

IsSpace(ch) == ch = " "
IsDigit(ch) == ch \in {"0", "1", "2", "3", "4", "5", "6", "7", "8", "9"}

\* String.trim
RECURSIVE TrimLeft(_)
TrimLeft(s) == IF s # <<>> /\ IsSpace(Head(s)) THEN TrimLeft(Tail(s)) ELSE s

RECURSIVE TrimRight(_)
TrimRight(s) ==
    IF s # <<>> /\ IsSpace(s[Len(s)]) THEN TrimRight(SubSeq(s, 1, Len(s) - 1)) ELSE s

Trimmed(s) == TrimRight(TrimLeft(s))

\* replace(/\s+/g, ' ')
RECURSIVE CollapseSpaces(_)
CollapseSpaces(s) ==
    IF s = <<>> THEN <<>>
    ELSE IF IsSpace(Head(s))
         THEN <<" ">> \o CollapseSpaces(TrimLeft(s))
         ELSE <<Head(s)>> \o CollapseSpaces(Tail(s))

\* replace(/[¿?¡!\.]/g, ''): the characters are removed wherever they stand
Punctuation == {"?", "!", ".", "INVERTED_QUESTION", "INVERTED_EXCLAMATION"}
RemovePunctuation(s) == SelectSeq(s, LAMBDA ch : ch \notin Punctuation)

\* \d{4}-\d{2}-\d{2} matches at the head of s
DateAtHead(s) ==
    /\ Len(s) >= 10
    /\ \A i \in {1, 2, 3, 4, 6, 7, 9, 10} : IsDigit(s[i])
    /\ s[5] = "-" /\ s[8] = "-"

\* replace(/\d{4}-\d{2}-\d{2}/g, 'DATE')
RECURSIVE ReplaceDates(_)
ReplaceDates(s) ==
    IF s = <<>> THEN <<>>
    ELSE IF DateAtHead(s)
         THEN <<"D", "A", "T", "E">> \o ReplaceDates(SubSeq(s, 11, Len(s)))
         ELSE <<Head(s)>> \o ReplaceDates(Tail(s))

RECURSIVE DropDigits(_)
DropDigits(s) == IF s # <<>> /\ IsDigit(Head(s)) THEN DropDigits(Tail(s)) ELSE s

\* replace(/\d+/g, 'NUM')
RECURSIVE ReplaceNumbers(_)
ReplaceNumbers(s) ==
    IF s = <<>> THEN <<>>
    ELSE IF IsDigit(Head(s))
         THEN <<"N", "U", "M">> \o ReplaceNumbers(DropDigits(s))
         ELSE <<Head(s)>> \o ReplaceNumbers(Tail(s))

\* normalizedPrompt (lines 59-65): the steps in the order the code applies them
NormalizePrompt(p) ==
    ReplaceNumbers(ReplaceDates(RemovePunctuation(CollapseSpaces(Trimmed(LowerCased(p))))))

\* String.charCodeAt for the characters a normalized question can hold
CharCodeAt(ch) ==
    CASE ch = " " -> 32 [] ch = "-" -> 45
      [] ch = "A" -> 65 [] ch = "D" -> 68 [] ch = "E" -> 69 [] ch = "M" -> 77
      [] ch = "N" -> 78 [] ch = "T" -> 84 [] ch = "U" -> 85
      [] ch = "d" -> 100 [] ch = "e" -> 101 [] ch = "o" -> 111 [] ch = "r" -> 114
      [] ch = "s" -> 115 [] ch = "u" -> 117

\* hashString (lines 73-81): hash = ((hash << 5) - hash) + char, kept to 32 bits;
\* a 32-bit word is the pair <<high half, low half>> of its two's complement
HalfWord == 65536

HashStep(h, code) ==
    LET lo == 31 * h[2] + code
        hi == 31 * h[1] + (lo \div HalfWord)
    IN <<hi % HalfWord, lo % HalfWord>>

RECURSIVE HashFrom(_, _)
HashFrom(h, s) == IF s = <<>> THEN h ELSE HashFrom(HashStep(h, CharCodeAt(Head(s))), Tail(s))

\* Math.abs of the signed 32-bit value
AbsWord(h) ==
    IF h[1] < HalfWord \div 2 THEN h
    ELSE IF h[2] = 0 THEN <<HalfWord - h[1], 0>>
         ELSE <<HalfWord - 1 - h[1], HalfWord - h[2]>>

\* the number that toString(36) writes out
HashString(s) == AbsWord(HashFrom(<<0, 0>>, s))

\* faulty variant: the fingerprint is left out of the key
GenerateKeyWithoutFingerprint(prompt, lang, schemaHash) ==
    <<HashString(NormalizePrompt(prompt)), lang, NoValue>>

\* generateKey: `${hash}_${language}_${schemaHash}`; none of the three parts
\* can hold an underscore
GenerateKey(prompt, lang, schemaHash) ==
    <<HashString(NormalizePrompt(prompt)), lang, schemaHash>>

\* generateKey for the questions query() is called with: the hash of the
\* normalized question is worked out once for each of them
PromptHash == [p \in Prompts |-> HashString(NormalizePrompt(QuestionText(p)))]
QueryKey(prompt, lang, schemaHash) == <<PromptHash[prompt], lang, schemaHash>>

\* generateSimpleResponse: the canned answers need a price_public / stock /
\* profit field in the first row; the abstract rows of this model have none
\* faulty variant: the gate lets every statement through
PassesReadOnlyGateAnyVerb(sql) == TRUE

\* sql.toLowerCase().trim().startsWith(verb) for one of the read verbs: the
\* first word of the statement, blanks before it and the case of its letters
\* set aside
PassesReadOnlyGate(sql) ==
    \/ sql # <<>> /\ sql[1] \in ReadVerbs
    \/ LET text == TrimLeft(sql)
       IN text # <<>> /\ UpperToken(text[1]) \in ReadVerbs

\* cleanSqlResponse on tokens.  The markdown fence tokens (three backticks, with
\* or without a language tag) are removed (lines 186-190), then every backtick
\* left (line 193, the token BACKTICK) and the single-line comments (line 196,
\* the token of a comment up to its end of line); the text is trimmed (lines
\* 218-221); when nothing is left the original text is returned, trimmed (lines
\* 228-230; every statement of the model is at least 5 characters long).
FenceTokens == {"FENCE_SQL", "FENCE_MYSQL", "FENCE_MARIADB", "FENCE"}
Backtick == "BACKTICK"
LineComment == "-- comment"
CleanSqlResponse(sql) ==
    LET cleanedSql == Trimmed(SelectSeq(sql, LAMBDA t :
                                  t \notin FenceTokens \cup {Backtick, LineComment}))
    IN IF cleanedSql = <<>> THEN Trimmed(sql) ELSE cleanedSql

GenerateSimpleResponse(sql, results) == NoValue

\* ------------------------------------------------------------------- state
VARIABLES
    calls,           \* per query() call: position and local variables
    cache,           \* MemoryCache.cache, entries in insertion order
    hits, misses,    \* MemoryCache.stats
    memEnabled,      \* MemoryCache.enabled
    hasCache,        \* CyberMySQLOpenAI.cache !== null
    cacheEnabled,    \* CyberMySQLOpenAI.cacheEnabled
    maxReflections,  \* CyberMySQLOpenAI.maxReflections
    maxSize,         \* MemoryCache.maxSize
    language,        \* I18n language of the orchestrator
    now,             \* Date.now()
    dbSchema,        \* tables the database reports
    started,         \* number of query() calls started
    lastDone,        \* the most recently returned result (history)
    host,            \* whether the host program issues repeated calls and
                     \* management operations in this behaviour
    hostOps,         \* number of host operations performed (clock ticks included)
    probe            \* the last direct application of a component (a MemoryCache
                     \* method, validateQuery), with its arguments and its result

vars == <<calls, cache, hits, misses, memEnabled, hasCache, cacheEnabled,
          maxReflections, maxSize, language, now, dbSchema, started, lastDone, host, hostOps, probe>>

NoCall == [key |-> NoValue]

\* no component has been applied directly
NoProbe == [op |-> NoValue]

IdleCall ==
    [pc |-> "idle", prompt |-> NoValue, schema |-> {}, schemaHash |-> NoValue,
     sql |-> <<>>, confidence |-> FALSE, fcError |-> NoValue, pending |-> <<>>,
     results |-> <<>>, success |-> FALSE, attempts |-> 0, reflections |-> <<>>,
     errorMessage |-> NoValue, naturalResponse |-> NoValue,
     detailedResponse |-> NoValue, fromCache |-> FALSE, thrown |-> NoValue,
     bypassCache |-> FALSE, foreignKeys |-> <<>>,
     \* history of the call, never read by the code (lang: the language of
     \* the lookup and of the prompts; outdated: the cache was cleared, or
     \* invalidated for a table of the statement, after the statement had run)
     lang |-> NoValue, outdated |-> FALSE, log |-> <<>>, fault |-> NoValue, refFaults |-> 0, cycles |-> 0,
     stored |-> FALSE, quiet |-> TRUE, prev |-> NoCall]

\* ------------------------------------------------------------- MemoryCache
FindKey(c, key) ==
    IF \E i \in 1..Len(c) : c[i].key = key
    THEN CHOOSE i \in 1..Len(c) : c[i].key = key
    ELSE 0

RemoveAt(c, i) == SubSeq(c, 1, i - 1) \o SubSeq(c, i + 1, Len(c))

\* faulty variant: an entry is taken as expired at the very end of its TTL
ExpiredAtTtl(e, t) == t - e.timestamp >= e.ttl

\* Date.now() - entry.timestamp > entry.ttl (lines 123, 187)
Expired(e, t) == t - e.timestamp > e.ttl

\* faulty variant: an expired entry is reported as a miss but left in the map
CacheGetKeepExpired(c, enabled, key, t) ==
    LET i == FindKey(c, key) IN
    IF ~enabled THEN [found |-> FALSE, at |-> 0, cache |-> c, hit |-> 0, miss |-> 0]
    ELSE IF i = 0 THEN [found |-> FALSE, at |-> 0, cache |-> c, hit |-> 0, miss |-> 1]
    ELSE IF Expired(c[i], t)
         THEN [found |-> FALSE, at |-> 0, cache |-> c, hit |-> 0, miss |-> 1]
         ELSE [found |-> TRUE, at |-> i, cache |-> c, hit |-> 1, miss |-> 0]

\* faulty variant: a hit refreshes the timestamp of the entry it returns
CacheGetTouches(c, enabled, key, t) ==
    LET i == FindKey(c, key) IN
    IF ~enabled THEN [found |-> FALSE, at |-> 0, cache |-> c, hit |-> 0, miss |-> 0]
    ELSE IF i = 0 THEN [found |-> FALSE, at |-> 0, cache |-> c, hit |-> 0, miss |-> 1]
    ELSE IF Expired(c[i], t)
         THEN [found |-> FALSE, at |-> 0, cache |-> RemoveAt(c, i), hit |-> 0, miss |-> 1]
         ELSE [found |-> TRUE, at |-> i,
               cache |-> [c EXCEPT ![i].timestamp = t], hit |-> 1, miss |-> 0]

\* MemoryCache.get: whether an entry is returned (and its position), the cache
\* left behind and the increments of the hit and miss counters
CacheGet(c, enabled, key, t) ==
    LET i == FindKey(c, key) IN
    IF ~enabled THEN [found |-> FALSE, at |-> 0, cache |-> c, hit |-> 0, miss |-> 0]
    ELSE IF i = 0 THEN [found |-> FALSE, at |-> 0, cache |-> c, hit |-> 0, miss |-> 1]
    ELSE IF Expired(c[i], t)
         THEN [found |-> FALSE, at |-> 0, cache |-> RemoveAt(c, i), hit |-> 0, miss |-> 1]
         ELSE [found |-> TRUE, at |-> i, cache |-> c, hit |-> 1, miss |-> 0]

\* MemoryCache.evictOldest: oldestTime starts at Date.now() and only a strictly
\* older timestamp replaces it; the first such minimum in iteration order goes
EvictOldest(c, t) ==
    LET older == { i \in 1..Len(c) : c[i].timestamp < t } IN
    IF older = {} THEN c
    ELSE LET m == CHOOSE i \in older :
                     /\ \A j \in older : c[i].timestamp <= c[j].timestamp
                     /\ \A j \in older : c[j].timestamp = c[i].timestamp => i <= j
         IN RemoveAt(c, m)

\* MemoryCache.set
CacheSet(c, enabled, size, key, lang, sql, results, naturalResponse, t) ==
    IF ~enabled THEN c
    ELSE LET c1 == IF Len(c) >= size THEN EvictOldest(c, t) ELSE c
             e  == [key |-> key, sql |-> sql, results |-> results,
                    naturalResponse |-> naturalResponse, timestamp |-> t,
                    ttl |-> GetTTLByQueryType(sql), language |-> lang]
             i  == FindKey(c1, key)
         IN IF i = 0 THEN Append(c1, e) ELSE [c1 EXCEPT ![i] = e]

\* faulty variant: an entry is removed at the very end of its TTL
CleanupEntriesAtTtl(c, t) == SelectSeq(c, LAMBDA e : ~ExpiredAtTtl(e, t))

\* MemoryCache.cleanup
CleanupEntries(c, t) == SelectSeq(c, LAMBDA e : ~Expired(e, t))

\* MemoryCache.invalidateByTable: the entries whose SQL text holds the table
\* name, both lower-cased (keysToDelete), and what is left once they are deleted
InvalidateMatches(c, table) ==
    { i \in 1..Len(c) : TextIncludes(c[i].sql, UpperToken(table)) }

\* faulty variant: only a word of the SQL text written exactly as the table
\* name counts as a match
InvalidateEntriesExactWord(c, table) ==
    SelectSeq(c, LAMBDA e : ~SeqContains(e.sql, table))

InvalidateEntries(c, table) ==
    SelectSeq(c, LAMBDA e : ~TextIncludes(e.sql, UpperToken(table)))

\* MemoryCache.getStats: the counters as they stand, the entry count, and the
\* hit rate as the quotient (hits / total) * 100, written as a fraction
GetStats(c, h, m) ==
    LET total == h + m IN
    [totalEntries |-> Len(c), hits |-> h, misses |-> m,
     hitRate |-> IF total > 0 THEN [num |-> h * 100, den |-> total]
                 ELSE [num |-> 0, den |-> 1]]

\* ---------------------------------------------------------------- Init
\* Two families of behaviours are explored.  Without host activity: one call,
\* every configured ceiling, every reply and every failure of the completion
\* service, with and without the detailed option.  With host activity:
\* repeated calls, clock and management operations, the ceiling 1, a
\* completion service that answers every structured request with a statement
\* that passes the read-only gate, corrects to one statement and always writes
\* the explanation, a database that runs what names its tables and rejects
\* the rest, no detailed option.
ConfiguredCeilings(h) == IF h THEN {1} ELSE 0..MaxCeiling   \* 0: absent (or 0)
Replies(h) == IF h THEN {SqlUsers, SqlGhosts} ELSE SqlCandidates
TextReplies(h) == Replies(h) \cup {SqlFenced}
FixReplies(h) == IF h THEN {SqlGhosts} ELSE SqlCandidates
\* the database: any outcome for any statement, or (with host activity) one
\* that holds the table users and no table ghosts throughout
DbMayAccept(h, sql) == PassesReadOnlyGate(sql) /\ (h => ~SeqContains(sql, "ghosts"))
DbMayReject(h, sql) == h => SeqContains(sql, "ghosts")
TextFixReplies(h) == FixReplies(h) \cup {SqlFenced}
Explanations(h) ==
    IF h THEN {MsgNoResults, MsgExplanation}
    ELSE {MsgNoResults, MsgExplanation, MsgQueryCompleted}
QueryBudget(h) == IF h THEN MaxQueries ELSE 1
ServiceMayFail(h) == ~h
DetailedOptions(h) == IF h THEN {FALSE} ELSE BOOLEAN
InitialSchemas(h) == IF h THEN {SchemaA} ELSE Schemas
CacheSizes(h) == IF h THEN {1} ELSE {2}

Init ==
    /\ calls = [c \in Calls |-> IdleCall]
    /\ cache = <<>>
    /\ hits = 0
    /\ misses = 0
    /\ \E en \in BOOLEAN :
          /\ cacheEnabled = en
          /\ hasCache = en
          /\ memEnabled = TRUE
    /\ host \in BOOLEAN
    /\ \E cfg \in ConfiguredCeilings(host) :
          maxReflections = EffectiveMaxReflections(cfg)
    /\ maxSize \in CacheSizes(host)
    /\ language = "en"
    /\ now = 0
    /\ dbSchema \in InitialSchemas(host)
    /\ started = 0
    /\ lastDone = NoCall
    /\ hostOps = 0
    /\ probe = NoProbe

\* ------------------------------------------------------------ query(): steps
Active(c) == calls[c].pc \notin {"idle", "returned", "thrown"}

SetCall(c, rec) == calls' = [calls EXCEPT ![c] = rec]

\* history: what the caller got back
Outcome(rec) ==
    IF rec.quiet
    THEN [key |-> PromptHash[rec.prompt], success |-> rec.success,
          fromCache |-> rec.fromCache, sql |-> rec.sql, results |-> rec.results,
          at |-> now]
    ELSE NoCall

\* query(prompt) is called (lines 125-136): getDatabaseSchema issues the query
\* for the tables
StartQuery(c, prompt) ==
    /\ calls[c].pc = "idle"
    /\ probe = NoProbe
    /\ started < QueryBudget(host)
    /\ started' = started + 1
    /\ SetCall(c, [IdleCall EXCEPT !.pc = "tables", !.prompt = prompt])
    /\ UNCHANGED <<cache, hits, misses, memEnabled, hasCache, cacheEnabled,
                   maxReflections, maxSize, language, now, dbSchema, lastDone, host, hostOps, probe>>

\* the foreign keys the database holds
DbForeignKeys(schema) ==
    IF "orders" \in schema
    THEN <<[table_name |-> "orders", referenced_table |-> "users"]>>
    ELSE <<>>

\* the tables arrive and getForeignKeys issues its query
SchemaTablesReturn(c) ==
    /\ calls[c].pc = "tables"
    /\ SetCall(c, [calls[c] EXCEPT !.pc = "fks"])
    /\ UNCHANGED <<cache, hits, misses, memEnabled, hasCache, cacheEnabled,
                   maxReflections, maxSize, language, now, dbSchema, started, lastDone, host, hostOps, probe>>

\* the foreign keys arrive and the queries for the columns are issued
ForeignKeysReturn(c) ==
    /\ calls[c].pc = "fks"
    /\ SetCall(c, [calls[c] EXCEPT !.pc = "schema",
                                   !.foreignKeys = DbForeignKeys(dbSchema)])
    /\ UNCHANGED <<cache, hits, misses, memEnabled, hasCache, cacheEnabled,
                   maxReflections, maxSize, language, now, dbSchema, started, lastDone, host, hostOps, probe>>

\* faulty variant: the failure of the foreign-key query is passed on
ForeignKeysFailThrows(c) ==
    /\ calls[c].pc = "fks"
    /\ ~host
    /\ SetCall(c, [calls[c] EXCEPT !.pc = "thrown", !.thrown = ErrSchema,
                                   !.fault = "schema"])
    /\ UNCHANGED <<cache, hits, misses, memEnabled, hasCache, cacheEnabled,
                   maxReflections, maxSize, language, now, dbSchema, started, lastDone, host, hostOps, probe>>

\* the foreign-key query raises: getForeignKeys gives [] and the queries for
\* the columns are issued
ForeignKeysFail(c) ==
    /\ calls[c].pc = "fks"
    /\ ~host
    /\ SetCall(c, [calls[c] EXCEPT !.pc = "schema", !.foreignKeys = <<>>])
    /\ UNCHANGED <<cache, hits, misses, memEnabled, hasCache, cacheEnabled,
                   maxReflections, maxSize, language, now, dbSchema, started, lastDone, host, hostOps, probe>>

\* the query for the tables or a query for the columns raises:
\* getDatabaseSchema() raises (lines 136, 281-285)
SchemaFail(c) ==
    /\ calls[c].pc \in {"tables", "schema"}
    /\ SetCall(c, [calls[c] EXCEPT !.pc = "thrown", !.thrown = ErrSchema,
                                   !.fault = "schema"])
    /\ UNCHANGED <<cache, hits, misses, memEnabled, hasCache, cacheEnabled,
                   maxReflections, maxSize, language, now, dbSchema, started, lastDone, host, hostOps, probe>>

\* faulty variant: options.bypassCache is not looked at
UsesCacheIgnoringBypass(bypass) == hasCache /\ cacheEnabled

\* whether query() consults the cache (line 140)
UsesCache(bypass) == hasCache /\ cacheEnabled /\ ~bypass

\* history: the preceding result, when this call repeats its question with the
\* cache on, nothing having disturbed the cache, the language or the schema
\* since that call started, and the TTL of what it produced not yet run out
Preceding(rec, bypass) ==
    IF lastDone = NoCall \/ ~cacheEnabled \/ bypass THEN NoCall
    ELSE IF /\ lastDone.key = PromptHash[rec.prompt]
            /\ now - lastDone.at <= GetTTLByQueryType(lastDone.sql)
         THEN lastDone
         ELSE NoCall

\* the columns arrive and getDatabaseSchema() returns: fingerprint of the
\* snapshot (a snapshot without the foreign keys of the database has another
\* one), cache lookup, and on a miss the structured generation request is
\* issued (lines 136-175, 432-474)
SchemaReturn(c, bypass) ==
    /\ calls[c].pc = "schema"
    /\ LET rec  == calls[c]
           hash == IF rec.foreignKeys = DbForeignKeys(dbSchema)
                   THEN GenerateSchemaHash(dbSchema)
                   ELSE "fpusersordersnofk"
           got  == CacheGet(cache, memEnabled,
                            QueryKey(rec.prompt, language, hash), now)
           base == [rec EXCEPT !.schema = dbSchema, !.schemaHash = hash,
                               !.bypassCache = bypass, !.lang = language,
                               !.prev = Preceding(rec, bypass)]
       IN IF UsesCache(bypass)
          THEN /\ cache' = got.cache
               /\ hits' = hits + got.hit
               /\ misses' = misses + got.miss
               /\ IF got.found
                  THEN LET done == [base EXCEPT !.pc = "returned",
                                       !.sql = cache[got.at].sql,
                                       !.results = cache[got.at].results,
                                       !.naturalResponse = cache[got.at].naturalResponse,
                                       !.reflections = <<>>, !.attempts = 0,
                                       !.success = TRUE, !.fromCache = TRUE]
                       IN /\ SetCall(c, done)
                          /\ lastDone' = Outcome(done)
                  ELSE /\ SetCall(c, [base EXCEPT !.pc = "gen_fc"])
                       /\ UNCHANGED lastDone
          ELSE /\ SetCall(c, [base EXCEPT !.pc = "gen_fc"])
               /\ UNCHANGED <<cache, hits, misses, lastDone>>
    /\ UNCHANGED <<memEnabled, hasCache, cacheEnabled, maxReflections, maxSize,
                   language, now, dbSchema, started, host, hostOps, probe>>

\* generateSQL, structured mode answers with a tool call (lines 488-497): the
\* arguments are used as they are, and executeReadOnlyQuery is issued (line 186)
GenFcReturn(c, reply) ==
    /\ calls[c].pc = "gen_fc"
    /\ SetCall(c, [calls[c] EXCEPT !.pc = "exec0", !.sql = reply, !.confidence = TRUE])
    /\ UNCHANGED <<cache, hits, misses, memEnabled, hasCache, cacheEnabled,
                   maxReflections, maxSize, language, now, dbSchema, started, lastDone, host, hostOps, probe>>

\* faulty variant: a failed structured request is surfaced, no text request
GenFcFailThrows(c, err) ==
    /\ calls[c].pc = "gen_fc"
    /\ ServiceMayFail(host)
    /\ SetCall(c, [calls[c] EXCEPT !.pc = "thrown", !.thrown = ErrGenerate,
                                   !.fault = "gen"])
    /\ UNCHANGED <<cache, hits, misses, memEnabled, hasCache, cacheEnabled,
                   maxReflections, maxSize, language, now, dbSchema, started, lastDone, host, hostOps, probe>>

\* generateSQL, structured mode fails in any way: catch (fcError) is entered
\* and the text request is issued (lines 500-516)
GenFcFail(c, err) ==
    /\ calls[c].pc = "gen_fc"
    /\ ServiceMayFail(host)
    /\ SetCall(c, [calls[c] EXCEPT !.pc = "gen_text", !.fcError = err])
    /\ UNCHANGED <<cache, hits, misses, memEnabled, hasCache, cacheEnabled,
                   maxReflections, maxSize, language, now, dbSchema, started, lastDone, host, hostOps, probe>>

\* faulty variant: the text reply is given a confidence
GenTextReturnWithConfidence(c, reply) ==
    /\ calls[c].pc = "gen_text"
    /\ SetCall(c, [calls[c] EXCEPT !.pc = "exec0", !.sql = CleanSqlResponse(reply),
                                   !.confidence = TRUE, !.fcError = NoValue])
    /\ UNCHANGED <<cache, hits, misses, memEnabled, hasCache, cacheEnabled,
                   maxReflections, maxSize, language, now, dbSchema, started, lastDone, host, hostOps, probe>>

\* generateSQL, text mode answers (lines 518-536): the text is cleaned
GenTextReturn(c, reply) ==
    /\ calls[c].pc = "gen_text"
    /\ SetCall(c, [calls[c] EXCEPT !.pc = "exec0", !.sql = CleanSqlResponse(reply),
                                   !.fcError = NoValue])
    /\ UNCHANGED <<cache, hits, misses, memEnabled, hasCache, cacheEnabled,
                   maxReflections, maxSize, language, now, dbSchema, started, lastDone, host, hostOps, probe>>

\* faulty variant: the failure is swallowed and an empty statement is executed
GenTextFailSwallow(c) ==
    /\ calls[c].pc = "gen_text"
    /\ SetCall(c, [calls[c] EXCEPT !.pc = "exec0", !.sql = <<>>, !.fault = "gen",
                                   !.fcError = NoValue])
    /\ UNCHANGED <<cache, hits, misses, memEnabled, hasCache, cacheEnabled,
                   maxReflections, maxSize, language, now, dbSchema, started, lastDone, host, hostOps, probe>>

\* generateSQL, text mode raises (lines 538-543, 281-285): query() rejects
GenTextFail(c) ==
    /\ calls[c].pc = "gen_text"
    /\ SetCall(c, [calls[c] EXCEPT !.pc = "thrown", !.thrown = ErrGenerate,
                                   !.fault = "gen", !.fcError = NoValue])
    /\ UNCHANGED <<cache, hits, misses, memEnabled, hasCache, cacheEnabled,
                   maxReflections, maxSize, language, now, dbSchema, started, lastDone, host, hostOps, probe>>

\* ------------------------------------------------- reflectAndFix: the loop
\* while (attempts <= this.maxReflections && !success)   (line 649)
LoopCond(attempts, success, ceiling) == attempts <= ceiling /\ ~success

\* if (attempts > this.maxReflections) break              (line 690)
BreakCond(attempts, ceiling) == attempts > ceiling

\* reflectAndFix returns (lines 699-705) and query() takes the result over
\* (lines 202-215); generateSimpleResponse gives null, so the explanation
\* request is issued (lines 218-229)
ExitReflect(rec) ==
    [rec EXCEPT !.pc = "nat",
                !.results = IF rec.success THEN rec.results ELSE <<>>]

\* what generateReflection puts in the correction request: the question, the
\* statement and the error message it was called with (lines 652-658, 723-734)
CorrectionRequest(rec) ==
    [prompt |-> rec.prompt, sql |-> rec.sql, error |-> rec.errorMessage]

\* top of the loop: the next correction request is issued (lines 649-658)
NextIteration(rec) ==
    IF LoopCond(rec.attempts, rec.success, maxReflections)
    THEN [rec EXCEPT !.pc = "ref_fc", !.cycles = @ + 1]
    ELSE ExitReflect(rec)

\* faulty variant: the catch block forgets to count the failure
AfterFailureNoCount(rec, err) ==
    LET r == [rec EXCEPT !.errorMessage = err]
    IN IF BreakCond(r.attempts, maxReflections) THEN ExitReflect(r) ELSE NextIteration(r)

\* the catch block of the loop (lines 681-696)
AfterFailure(rec, err) ==
    LET r == [rec EXCEPT !.attempts = @ + 1, !.errorMessage = err]
    IN IF BreakCond(r.attempts, maxReflections) THEN ExitReflect(r) ELSE NextIteration(r)

\* the message executeReadOnlyQuery raises for a statement
ExecError(sql) == IF PassesReadOnlyGate(sql) THEN ErrDb ELSE ErrReadOnly

LogOk(rec, sql, rows) == Append(rec.log, [sql |-> sql, ok |-> TRUE, out |-> rows])
LogErr(rec, sql, err) == Append(rec.log, [sql |-> sql, ok |-> FALSE, out |-> err])

\* faulty variant: the result is stored as soon as the statement has run,
\* before the explanation is there
Exec0OkStoresEarly(c, rows) ==
    /\ calls[c].pc = "exec0"
    /\ DbMayAccept(host, calls[c].sql)
    /\ SetCall(c, [calls[c] EXCEPT !.pc = "nat", !.results = rows, !.success = TRUE,
                                   !.log = LogOk(calls[c], calls[c].sql, rows)])
    /\ cache' = IF hasCache /\ cacheEnabled
                THEN CacheSet(cache, memEnabled, maxSize,
                              QueryKey(calls[c].prompt, language, calls[c].schemaHash),
                              language, calls[c].sql, rows, MsgExplanation, now)
                ELSE cache
    /\ UNCHANGED <<hits, misses, memEnabled, hasCache, cacheEnabled,
                   maxReflections, maxSize, language, now, dbSchema, started, lastDone, host, hostOps, probe>>

\* the first executeReadOnlyQuery(sql) returns rows (lines 186-187, 218-229)
Exec0Ok(c, rows) ==
    /\ calls[c].pc = "exec0"
    /\ DbMayAccept(host, calls[c].sql)
    /\ SetCall(c, [calls[c] EXCEPT !.pc = "nat", !.results = rows, !.success = TRUE,
                                   !.log = LogOk(calls[c], calls[c].sql, rows)])
    /\ UNCHANGED <<cache, hits, misses, memEnabled, hasCache, cacheEnabled,
                   maxReflections, maxSize, language, now, dbSchema, started, lastDone, host, hostOps, probe>>

\* the first executeReadOnlyQuery(sql) raises: reflectAndFix starts
\* (lines 188-200, 643-658)
Exec0Fail(c) ==
    /\ calls[c].pc = "exec0"
    /\ DbMayReject(host, calls[c].sql)
    /\ LET rec == calls[c]
           err == ExecError(rec.sql)
       IN SetCall(c, NextIteration([rec EXCEPT !.attempts = 1, !.errorMessage = err,
                                               !.reflections = <<>>, !.results = <<>>,
                                               !.log = LogErr(rec, rec.sql, err)]))
    /\ UNCHANGED <<cache, hits, misses, memEnabled, hasCache, cacheEnabled,
                   maxReflections, maxSize, language, now, dbSchema, started, lastDone, host, hostOps, probe>>

\* generateReflection produced {reasoning, fixedSql}: clean it, record the
\* attempt, issue the execution of the corrected SQL (lines 660-674)
TakeReflection(rec, fixedSql) ==
    LET correctedSql == CleanSqlResponse(fixedSql)
    IN [rec EXCEPT !.pc = "exec", !.pending = correctedSql,
                   !.reflections = Append(@, [error |-> rec.errorMessage,
                                              reasoning |-> "reasoning",
                                              fixAttempt |-> correctedSql])]

\* generateReflection, structured mode answers (lines 786-794)
RefFcReturn(c, reply) ==
    /\ calls[c].pc = "ref_fc"
    /\ SetCall(c, TakeReflection(calls[c], reply))
    /\ UNCHANGED <<cache, hits, misses, memEnabled, hasCache, cacheEnabled,
                   maxReflections, maxSize, language, now, dbSchema, started, lastDone, host, hostOps, probe>>

\* generateReflection, structured mode fails: text request (lines 796-809)
RefFcFail(c, err) ==
    /\ calls[c].pc = "ref_fc"
    /\ ServiceMayFail(host)
    /\ SetCall(c, [calls[c] EXCEPT !.pc = "ref_text", !.fcError = err])
    /\ UNCHANGED <<cache, hits, misses, memEnabled, hasCache, cacheEnabled,
                   maxReflections, maxSize, language, now, dbSchema, started, lastDone, host, hostOps, probe>>

\* generateReflection, text mode answers (lines 811-840)
RefTextReturn(c, reply) ==
    /\ calls[c].pc = "ref_text"
    /\ SetCall(c, TakeReflection([calls[c] EXCEPT !.fcError = NoValue], reply))
    /\ UNCHANGED <<cache, hits, misses, memEnabled, hasCache, cacheEnabled,
                   maxReflections, maxSize, language, now, dbSchema, started, lastDone, host, hostOps, probe>>

\* faulty variant: a failed correction request is issued again, uncounted
OnReflectionErrorRetry(rec) == [rec EXCEPT !.pc = "ref_fc"]

\* faulty variant: a failed correction request escapes the loop
OnReflectionErrorThrows(rec) ==
    [rec EXCEPT !.pc = "thrown", !.thrown = ErrReflect, !.refFaults = @ + 1]

\* what the loop does with an error thrown by generateReflection
OnReflectionError(rec) == AfterFailure([rec EXCEPT !.refFaults = @ + 1], ErrReflect)

\* generateReflection, text mode raises (lines 842-849, then 681-696)
RefTextFail(c) ==
    /\ calls[c].pc = "ref_text"
    /\ SetCall(c, OnReflectionError([calls[c] EXCEPT !.fcError = NoValue]))
    /\ UNCHANGED <<cache, hits, misses, memEnabled, hasCache, cacheEnabled,
                   maxReflections, maxSize, language, now, dbSchema, started, lastDone, host, hostOps, probe>>

\* faulty variant: the statement that ran is not taken over as the result
OnFixSuccessKeepSql(rec, rows) ==
    ExitReflect([rec EXCEPT !.results = rows, !.success = TRUE,
                            !.pending = <<>>, !.log = LogOk(rec, rec.pending, rows)])

\* what the loop does when the corrected SQL ran (lines 674-676, 699-705)
OnFixSuccess(rec, rows) ==
    ExitReflect([rec EXCEPT !.results = rows, !.success = TRUE, !.sql = rec.pending,
                            !.pending = <<>>, !.log = LogOk(rec, rec.pending, rows)])

\* what the loop does when the corrected SQL failed (lines 681-696)
OnFixFailure(rec) ==
    AfterFailure([rec EXCEPT !.pending = <<>>,
                             !.log = LogErr(rec, rec.pending, ExecError(rec.pending))],
                 ExecError(rec.pending))

\* executeReadOnlyQuery(correctedSql) returns rows
ExecOk(c, rows) ==
    /\ calls[c].pc = "exec"
    /\ DbMayAccept(host, calls[c].pending)
    /\ SetCall(c, OnFixSuccess(calls[c], rows))
    /\ UNCHANGED <<cache, hits, misses, memEnabled, hasCache, cacheEnabled,
                   maxReflections, maxSize, language, now, dbSchema, started, lastDone, host, hostOps, probe>>

\* executeReadOnlyQuery(correctedSql) raises
ExecFail(c) ==
    /\ calls[c].pc = "exec"
    /\ DbMayReject(host, calls[c].pending)
    /\ SetCall(c, OnFixFailure(calls[c]))
    /\ UNCHANGED <<cache, hits, misses, memEnabled, hasCache, cacheEnabled,
                   maxReflections, maxSize, language, now, dbSchema, started, lastDone, host, hostOps, probe>>

\* ------------------------------------------- explanation, store and return
\* generateNaturalResponse(sql, results, {detailed:false}): what it can resolve to
NaturalOutcomes(results) ==
    IF results = <<>> THEN {MsgNoResults} ELSE {MsgExplanation, MsgQueryCompleted}

\* generateNaturalResponse(sql, results, {detailed:true})
DetailedOutcomes(results) ==
    IF results = <<>> THEN {MsgNoResults}
    ELSE {MsgDetailed, MsgQueryCompleted, MsgOpenAIError}

\* faulty variant: the outcome of the call is not looked at
ShouldStoreAnyOutcome(success, naturalResponse) ==
    hasCache /\ cacheEnabled /\ naturalResponse # NoValue

\* if (this.cache && this.cacheEnabled && success && naturalResponse)  (line 250)
ShouldStore(success, naturalResponse) ==
    hasCache /\ cacheEnabled /\ success /\ naturalResponse # NoValue

\* history: the entry of a key is marked when what it holds was read from the
\* database before the cache was cleared or invalidated for its table
Provenance(c, key, outdated) ==
    [i \in 1..Len(c) |->
        IF c[i].key = key /\ outdated THEN c[i] @@ [outdated |-> TRUE] ELSE c[i]]

\* lines 247-280: store when successful, then return the result
Finish(c, rec) ==
    \E r \in {rec} :      \* the record of the call, worked out once
        LET stores == ShouldStore(r.success, r.naturalResponse)
            done   == [r EXCEPT !.pc = "returned", !.fromCache = FALSE,
                                !.stored = stores /\ memEnabled]
        IN /\ cache' = IF stores
                       THEN Provenance(CacheSet(cache, memEnabled, maxSize,
                                                QueryKey(r.prompt, language, r.schemaHash),
                                                language, r.sql, r.results,
                                                r.naturalResponse, now),
                                       QueryKey(r.prompt, language, r.schemaHash),
                                       memEnabled /\ r.outdated)
                       ELSE cache
           /\ SetCall(c, done)
           /\ lastDone' = Outcome(done)

\* faulty variant: a failure of the explanation request (the reply the
\* fallback message stands for) escapes and the call rejects
NatReturnFailureThrows(c, msg, detailed) ==
    /\ calls[c].pc = "nat"
    /\ msg \in NaturalOutcomes(calls[c].results)
    /\ LET rec == [calls[c] EXCEPT !.naturalResponse = msg]
       IN IF msg = MsgQueryCompleted
          THEN /\ SetCall(c, [calls[c] EXCEPT !.pc = "thrown", !.thrown = MsgOpenAIError])
               /\ UNCHANGED <<cache, lastDone>>
          ELSE IF detailed
               THEN /\ SetCall(c, [rec EXCEPT !.pc = "det"])
                    /\ UNCHANGED <<cache, lastDone>>
               ELSE Finish(c, rec)
    /\ UNCHANGED <<hits, misses, memEnabled, hasCache, cacheEnabled,
                   maxReflections, maxSize, language, now, dbSchema, started, host, hostOps, probe>>

\* the explanation request resolves (lines 223-229); options.detailed is read
\* (line 233) and either the detailed request is issued or the call finishes
NatReturn(c, msg, detailed) ==
    /\ calls[c].pc = "nat"
    /\ msg \in NaturalOutcomes(calls[c].results)
    /\ LET rec == [calls[c] EXCEPT !.naturalResponse = msg]
       IN IF detailed
          THEN /\ SetCall(c, [rec EXCEPT !.pc = "det"])
               /\ UNCHANGED <<cache, lastDone>>
          ELSE Finish(c, rec)
    /\ UNCHANGED <<hits, misses, memEnabled, hasCache, cacheEnabled,
                   maxReflections, maxSize, language, now, dbSchema, started, host, hostOps, probe>>

\* the detailed explanation request resolves (lines 233-245)
DetReturn(c, msg) ==
    /\ calls[c].pc = "det"
    /\ msg \in DetailedOutcomes(calls[c].results)
    /\ Finish(c, [calls[c] EXCEPT !.detailedResponse = msg])
    /\ UNCHANGED <<hits, misses, memEnabled, hasCache, cacheEnabled,
                   maxReflections, maxSize, language, now, dbSchema, started, host, hostOps, probe>>

\* --------------------------------------------------------- the host program
\* A call reads the shared state only when the schema fetch resolves and when
\* it finishes, so host operations are interleaved before the call and between
\* its lookup and its store.
HostMayAct ==
    /\ host
    /\ hostOps < MaxHostOps
    /\ \A c \in Calls : calls[c].pc \in {"idle", "nat"}
    /\ hostOps' = hostOps + 1

\* history: something happened that may turn a repeated question into a miss
Disturbed(cs) == [c \in Calls |-> [cs[c] EXCEPT !.quiet = FALSE]]
DisturbedDone(d) == NoCall

\* time passes
Tick(d) ==
    /\ HostMayAct
    /\ now + d <= MaxTime
    /\ now' = now + d
    /\ UNCHANGED <<calls, cache, hits, misses, memEnabled, hasCache, cacheEnabled,
                   maxReflections, maxSize, language, dbSchema, started, lastDone, host, probe>>

\* setLanguage (lines 385-389)
SetLanguage(l) ==
    /\ HostMayAct
    /\ l # language
    /\ language' = l
    /\ calls' = Disturbed(calls)
    /\ lastDone' = DisturbedDone(lastDone)
    /\ UNCHANGED <<cache, hits, misses, memEnabled, hasCache, cacheEnabled,
                   maxReflections, maxSize, now, dbSchema, started, host, probe>>

\* a table is created or dropped in the database
SchemaChange(s) ==
    /\ HostMayAct
    /\ s # dbSchema
    /\ dbSchema' = s
    /\ calls' = Disturbed(calls)
    /\ lastDone' = DisturbedDone(lastDone)
    /\ UNCHANGED <<cache, hits, misses, memEnabled, hasCache, cacheEnabled,
                   maxReflections, maxSize, language, now, started, host, probe>>

\* clearCache (lines 889-894) and MemoryCache.clear
ClearCache ==
    /\ HostMayAct
    /\ hasCache /\ cacheEnabled
    /\ cache' = <<>>
    /\ hits' = 0
    /\ misses' = 0
    /\ calls' = [c \in Calls |->
                   [Disturbed(calls)[c] EXCEPT !.outdated = @ \/ calls[c].success]]
    /\ lastDone' = DisturbedDone(lastDone)
    /\ UNCHANGED <<memEnabled, hasCache, cacheEnabled, maxReflections, maxSize,
                   language, now, dbSchema, started, host, probe>>

\* invalidateCacheByTable (lines 901-911)
InvalidateCacheByTable(table) ==
    /\ HostMayAct
    /\ hasCache /\ cacheEnabled
    /\ cache' = InvalidateEntries(cache, table)
    /\ calls' = [c \in Calls |->
                   [Disturbed(calls)[c] EXCEPT
                      !.outdated = @ \/ (/\ calls[c].success
                                         /\ TextIncludes(calls[c].sql, UpperToken(table)))]]
    /\ lastDone' = DisturbedDone(lastDone)
    /\ UNCHANGED <<hits, misses, memEnabled, hasCache, cacheEnabled, maxReflections,
                   maxSize, language, now, dbSchema, started, host, probe>>

\* setCacheEnabled (lines 917-923) and MemoryCache.setEnabled
\* faulty variant: switching off leaves the entries where they are
SetCacheEnabledKeepEntries(enabled) ==
    /\ HostMayAct
    /\ enabled # cacheEnabled
    /\ cacheEnabled' = enabled
    /\ IF hasCache
       THEN memEnabled' = enabled /\ UNCHANGED <<cache, hits, misses>>
       ELSE UNCHANGED <<memEnabled, cache, hits, misses>>
    /\ calls' = Disturbed(calls)
    /\ lastDone' = DisturbedDone(lastDone)
    /\ UNCHANGED <<hasCache, maxReflections, maxSize, language, now, dbSchema, started, host, probe>>

SetCacheEnabled(enabled) ==
    /\ HostMayAct
    /\ enabled # cacheEnabled
    /\ cacheEnabled' = enabled
    /\ IF hasCache
       THEN /\ memEnabled' = enabled
            /\ IF enabled THEN UNCHANGED <<cache, hits, misses>>
                          ELSE cache' = <<>> /\ hits' = 0 /\ misses' = 0
       ELSE UNCHANGED <<memEnabled, cache, hits, misses>>
    /\ calls' = Disturbed(calls)
    /\ lastDone' = DisturbedDone(lastDone)
    /\ UNCHANGED <<hasCache, maxReflections, maxSize, language, now, dbSchema, started, host, probe>>

\* the setInterval callback of the cache (lines 38-41, 182-197)
Cleanup ==
    /\ \A c \in Calls : calls[c].pc \in {"idle", "nat"}
    /\ hasCache
    /\ cache' = CleanupEntries(cache, now)
    /\ cache' # cache
    /\ UNCHANGED <<calls, hits, misses, memEnabled, hasCache, cacheEnabled,
                   maxReflections, maxSize, language, now, dbSchema, started, lastDone, host, hostOps, probe>>

Tables == {"users", "orders"}

\* the caller takes the settled promise; the call slot is free again
Collect(c) ==
    /\ calls[c].pc \in {"returned", "thrown"}
    /\ SetCall(c, IdleCall)
    /\ UNCHANGED <<cache, hits, misses, memEnabled, hasCache, cacheEnabled,
                   maxReflections, maxSize, language, now, dbSchema, started,
                   lastDone, host, hostOps, probe>>

\* ------------------------------------------------------------ executeSQL()
\* One executeSQL() call in a behaviour without host activity, made when no
\* query() call is under way and followed by none; probe is the call: its position, the statement as
\* given and as cleaned, what was sent to the database (sent), the completion
\* requests issued (requests) and the result.
DirectStatements ==
    { SqlUsers, SqlGhosts, SqlUpdate, SqlFenced,
      <<"select", "name", "FROM", "users">>, <<"describe", "users">>,
      <<"DROP", "TABLE", "users">> }

\* cleanSqlResponse, then executeReadOnlyQuery up to its gate (lines 299-308):
\* the statement goes to the server, or the gate raises and the catch block
\* returns the failure (lines 359-369)
ExecuteSQLStart(sql, detailed) ==
    /\ probe = NoProbe
    /\ ~host
    /\ \A c \in Calls : calls[c].pc = "idle"
    /\ LET cleanedSql == CleanSqlResponse(sql)
           call == [op |-> "executeSQL", pc |-> "exec", given |-> sql,
                    sql |-> cleanedSql, detailed |-> detailed,
                    sent |-> <<cleanedSql>>, requests |-> <<>>,
                    results |-> <<>>, success |-> FALSE,
                    naturalResponse |-> NoValue, detailedResponse |-> NoValue]
       IN probe' = IF PassesReadOnlyGate(cleanedSql) THEN call
                   ELSE [call EXCEPT !.pc = "returned", !.sql = sql, !.sent = <<>>,
                                     !.naturalResponse = ErrReadOnly]
    /\ UNCHANGED <<calls, cache, hits, misses, memEnabled, hasCache, cacheEnabled,
                   maxReflections, maxSize, language, now, dbSchema, started,
                   lastDone, host, hostOps>>

\* faulty variant: the statement is sent once more after the server's error
ExecuteSQLDbFailRetries ==
    /\ probe.op = "executeSQL" /\ probe.pc = "exec"
    /\ DbMayReject(host, probe.sql)
    /\ Len(probe.sent) < 2
    /\ probe' = [probe EXCEPT !.sent = Append(@, probe.sql)]
    /\ UNCHANGED <<calls, cache, hits, misses, memEnabled, hasCache, cacheEnabled,
                   maxReflections, maxSize, language, now, dbSchema, started,
                   lastDone, host, hostOps>>

\* the server raises: the catch block returns the failure (lines 359-369)
ExecuteSQLDbFail ==
    /\ probe.op = "executeSQL" /\ probe.pc = "exec"
    /\ DbMayReject(host, probe.sql)
    /\ probe' = [probe EXCEPT !.pc = "returned", !.sql = probe.given,
                              !.naturalResponse = ErrDb]
    /\ UNCHANGED <<calls, cache, hits, misses, memEnabled, hasCache, cacheEnabled,
                   maxReflections, maxSize, language, now, dbSchema, started,
                   lastDone, host, hostOps>>

\* the server returns rows: generateSimpleResponse gives null and the
\* explanation request is issued (lines 310-323)
ExecuteSQLDbReturn(rows) ==
    /\ probe.op = "executeSQL" /\ probe.pc = "exec"
    /\ DbMayAccept(host, probe.sql)
    /\ probe' = [probe EXCEPT !.pc = "nat", !.results = rows,
                              !.requests = Append(@, "explain")]
    /\ UNCHANGED <<calls, cache, hits, misses, memEnabled, hasCache, cacheEnabled,
                   maxReflections, maxSize, language, now, dbSchema, started,
                   lastDone, host, hostOps>>

\* an explanation request resolves: the detailed one is issued when asked for
\* (lines 326-343), otherwise the result is returned (lines 345-358)
ExecuteSQLExplained(msg) ==
    /\ probe.op = "executeSQL"
    /\ \/ /\ probe.pc = "nat"
          /\ msg \in NaturalOutcomes(probe.results)
          /\ probe' = IF probe.detailed
                      THEN [probe EXCEPT !.pc = "det", !.naturalResponse = msg,
                                         !.requests = Append(@, "explain detailed")]
                      ELSE [probe EXCEPT !.pc = "returned", !.naturalResponse = msg,
                                         !.success = TRUE]
       \/ /\ probe.pc = "det"
          /\ msg \in DetailedOutcomes(probe.results)
          /\ probe' = [probe EXCEPT !.pc = "returned", !.detailedResponse = msg,
                                    !.success = TRUE]
    /\ UNCHANGED <<calls, cache, hits, misses, memEnabled, hasCache, cacheEnabled,
                   maxReflections, maxSize, language, now, dbSchema, started,
                   lastDone, host, hostOps>>

\* ----------------------------------------------------------- specification
QueryStep(c) ==
    \/ SchemaTablesReturn(c)
    \/ ForeignKeysReturn(c)
    \/ ForeignKeysFail(c)
    \/ SchemaFail(c)
    \/ \E b \in BOOLEAN : SchemaReturn(c, b)
    \/ \E r \in Replies(host) : GenFcReturn(c, r)
    \/ \E e \in FcErrors : GenFcFail(c, e)
    \/ \E r \in TextReplies(host) : GenTextReturn(c, r)
    \/ GenTextFail(c)
    \/ \E rows \in RowSets : Exec0Ok(c, rows)
    \/ Exec0Fail(c)
    \/ \E r \in FixReplies(host) : RefFcReturn(c, r)
    \/ \E e \in FcErrors : RefFcFail(c, e)
    \/ \E r \in TextFixReplies(host) : RefTextReturn(c, r)
    \/ RefTextFail(c)
    \/ \E rows \in RowSets : ExecOk(c, rows)
    \/ ExecFail(c)
    \/ \E m \in Explanations(host),
          d \in DetailedOptions(host) : NatReturn(c, m, d)
    \/ \E m \in {MsgNoResults, MsgDetailed, MsgQueryCompleted, MsgOpenAIError} :
          DetReturn(c, m)

Next ==
    \/ \E c \in Calls, p \in Prompts : StartQuery(c, p)
    \/ \E c \in Calls : QueryStep(c)
    \/ \E c \in Calls : Collect(c)
    \/ \E d \in 1..MaxTime : Tick(d)
    \/ \E l \in Languages : SetLanguage(l)
    \/ \E s \in Schemas : SchemaChange(s)
    \/ ClearCache
    \/ \E t \in Tables : InvalidateCacheByTable(t)
    \/ \E b \in BOOLEAN : SetCacheEnabled(b)
    \/ Cleanup
    \/ \E sql \in IF probe = NoProbe /\ ~host THEN DirectStatements ELSE {},
          d \in DetailedOptions(host) : ExecuteSQLStart(sql, d)
    \/ ExecuteSQLDbFail
    \/ \E rows \in RowSets : ExecuteSQLDbReturn(rows)
    \/ \E m \in {MsgNoResults, MsgExplanation, MsgDetailed, MsgQueryCompleted,
                  MsgOpenAIError} : ExecuteSQLExplained(m)

Spec == Init /\ [][Next]_vars

\* One call on its own, every promise it awaits settling sooner or later: the
\* loop of the call reads nothing a host operation writes.
InitCall == Init /\ ~host

NextCall ==
    \/ \E c \in Calls, p \in Prompts : StartQuery(c, p)
    \/ \E c \in Calls : QueryStep(c)
    \/ \E c \in Calls : Collect(c)

SpecLive == InitCall /\ [][NextCall]_vars /\ \A c \in Calls : WF_vars(QueryStep(c))

\* ------------------------------------------------- MemoryCache on its own
\* The methods of MemoryCache applied directly, in any order, to one instance.
\* probe records the method applied last with its arguments and its result;
\* probe.run lists the keys stored so far for as long as nothing but stores
\* of new keys (and the passing of time) has happened since construction;
\* probe.lookups counts the get() calls made while the cache was enabled and
\* probe.timer tells whether the cleanup interval is set: the orchestrator
\* constructs the cache with a positive cleanupIntervalMs, and destroy() clears
\* the interval.  After destroy() the host only stores and lets time pass.
MaxLookups == 2        \* get() calls in one behaviour

SqlArchive     == <<"SELECT", "name", "FROM", "users_archive">>
SqlCountOrders == <<"SELECT", "COUNT(*)", "FROM", "orders">>

\* (prompt, language, sql) of the entries stored and looked up
StoreInputs == { <<"Users?", "en", SqlUsers>>,
                 <<"Users?", "es", SqlArchive>>,
                 <<"orders 5", "en", SqlCountOrders>> }

TableNames == {"users", "USERS", "orders", "ghosts"}

KeyOf(q) == QueryKey(q[1], q[2], GenerateSchemaHash(SchemaA))

InitCache ==
    /\ calls = [c \in Calls |-> IdleCall]
    /\ cache = <<>>
    /\ hits = 0
    /\ misses = 0
    /\ cacheEnabled = TRUE
    /\ hasCache = TRUE
    /\ memEnabled = TRUE
    /\ host = FALSE
    /\ maxReflections = DEFAULT_MAX_REFLECTIONS
    /\ maxSize \in CacheSizes(TRUE) \cup CacheSizes(FALSE)
    /\ language = "en"
    /\ now = 0
    /\ dbSchema = SchemaA
    /\ started = 0
    /\ lastDone = NoCall
    /\ hostOps = 0
    /\ probe = [op |-> NoValue, lookups |-> 0, timer |-> TRUE,
                fresh |-> TRUE, run |-> <<>>]

MemFrame ==
    UNCHANGED <<calls, hasCache, cacheEnabled, maxReflections, maxSize, language,
                dbSchema, started, lastDone, host, hostOps>>

MemSet(q) ==
    /\ cache' = CacheSet(cache, memEnabled, maxSize, KeyOf(q), q[2], q[3],
                         SomeRows, MsgExplanation, now)
    /\ probe' = IF probe.fresh /\ memEnabled /\ ~SeqContains(probe.run, KeyOf(q))
                THEN [op |-> "set", key |-> KeyOf(q), lookups |-> probe.lookups, timer |-> probe.timer,
                 fresh |-> TRUE,
                      run |-> Append(probe.run, KeyOf(q))]
                ELSE [op |-> "set", key |-> KeyOf(q), lookups |-> probe.lookups, timer |-> probe.timer,
                 fresh |-> FALSE, run |-> <<>>]
    /\ UNCHANGED <<hits, misses, memEnabled, now>>
    /\ MemFrame

MemGet(q) ==
    /\ probe.lookups < MaxLookups
    /\ LET got == CacheGet(cache, memEnabled, KeyOf(q), now) IN
         /\ cache' = got.cache
         /\ hits' = hits + got.hit
         /\ misses' = misses + got.miss
         /\ probe' = IF got.found
                     THEN [op |-> "get", key |-> KeyOf(q), found |-> TRUE,
                           entry |-> cache[got.at], held |-> TRUE,
                           lookups |-> probe.lookups + (IF memEnabled THEN 1 ELSE 0),
                           timer |-> probe.timer,
                           fresh |-> FALSE, run |-> <<>>]
                     ELSE [op |-> "get", key |-> KeyOf(q), found |-> FALSE,
                           held |-> FindKey(cache, KeyOf(q)) # 0,
                           lookups |-> probe.lookups + (IF memEnabled THEN 1 ELSE 0),
                           timer |-> probe.timer,
                           fresh |-> FALSE, run |-> <<>>]
    /\ UNCHANGED <<memEnabled, now>>
    /\ MemFrame

MemCleanup ==
    /\ probe.timer
    /\ cache' = CleanupEntries(cache, now)
    /\ probe' = [op |-> "cleanup", k |-> Len(cache) - Len(CleanupEntries(cache, now)),
                 lookups |-> probe.lookups, timer |-> probe.timer,
                 fresh |-> FALSE, run |-> <<>>]
    /\ UNCHANGED <<hits, misses, memEnabled, now>>
    /\ MemFrame

MemInvalidateByTable(table) ==
    /\ cache' = InvalidateEntries(cache, table)
    /\ probe' = [op |-> "invalidate", table |-> table,
                 k |-> Cardinality(InvalidateMatches(cache, table)),
                 lookups |-> probe.lookups, timer |-> probe.timer,
                 fresh |-> FALSE, run |-> <<>>]
    /\ UNCHANGED <<hits, misses, memEnabled, now>>
    /\ MemFrame

MemClear ==
    /\ cache' = <<>>
    /\ hits' = 0
    /\ misses' = 0
    /\ probe' = [op |-> "clear", lookups |-> probe.lookups, timer |-> probe.timer,
                 fresh |-> FALSE, run |-> <<>>]
    /\ UNCHANGED <<memEnabled, now>>
    /\ MemFrame

MemSetEnabled(enabled) ==
    /\ memEnabled' = enabled
    /\ IF enabled THEN UNCHANGED <<cache, hits, misses>>
       ELSE cache' = <<>> /\ hits' = 0 /\ misses' = 0
    /\ probe' = [op |-> "setEnabled", lookups |-> probe.lookups, timer |-> probe.timer,
                 fresh |-> FALSE, run |-> <<>>]
    /\ UNCHANGED now
    /\ MemFrame

MemTick(d) ==
    /\ now + d <= MaxTime
    /\ now' = now + d
    /\ probe' = [op |-> "tick", lookups |-> probe.lookups, timer |-> probe.timer,
                 fresh |-> probe.fresh, run |-> probe.run]
    /\ UNCHANGED <<cache, hits, misses, memEnabled>>
    /\ MemFrame

\* MemoryCache.destroy: the timer is cleared and the cache emptied
MemDestroy ==
    /\ cache' = <<>>
    /\ hits' = 0
    /\ misses' = 0
    /\ probe' = [op |-> "destroy", lookups |-> probe.lookups, timer |-> FALSE,
                 fresh |-> FALSE, run |-> <<>>]
    /\ UNCHANGED <<memEnabled, now>>
    /\ MemFrame

NextCache ==
    \/ \E q \in StoreInputs : MemSet(q)
    \/ \E q \in IF probe.timer THEN StoreInputs ELSE {} : MemGet(q)
    \/ MemCleanup
    \/ \E t \in IF probe.timer THEN TableNames ELSE {} : MemInvalidateByTable(t)
    \/ probe.timer /\ MemClear
    \/ \E b \in IF probe.timer THEN BOOLEAN ELSE {} : MemSetEnabled(b)
    \/ \E d \in 1..MaxTime : MemTick(d)
    \/ MemDestroy

SpecCache == InitCache /\ [][NextCache]_vars

\* The cache with its timer: for as long as the interval set by the
\* constructor is there, its callback runs again and again.
SpecCacheTimer == SpecCache /\ WF_vars(MemCleanup)

\* ------------------------------------ two orchestrators in one process
\* Two CyberMySQLOpenAI objects constructed in the same process, each with its
\* own configuration.  MemoryCache.getInstance hands out the one static
\* instance: cache, hits, misses, memEnabled and maxSize are its fields, and
\* probe holds whether it exists (instance), the fields of each orchestrator
\* (made, hasCache for cache !== null, cacheEnabled, and size, the configured
\* cache.maxSize) and the operation applied last (op) with its orchestrator
\* (by).
Orchestrators == {"a", "b"}

InitShared ==
    /\ calls = [c \in Calls |-> IdleCall]
    /\ cache = <<>>
    /\ hits = 0
    /\ misses = 0
    /\ cacheEnabled = FALSE
    /\ hasCache = FALSE
    /\ memEnabled = TRUE
    /\ host = FALSE
    /\ maxReflections = DEFAULT_MAX_REFLECTIONS
    /\ maxSize = 0
    /\ language = "en"
    /\ now = 0
    /\ dbSchema = SchemaA
    /\ started = 0
    /\ lastDone = NoCall
    /\ hostOps = 0
    /\ probe = [op |-> NoValue, by |-> NoValue, instance |-> FALSE,
                orch |-> [o \in Orchestrators |->
                            [made |-> FALSE, hasCache |-> FALSE,
                             cacheEnabled |-> FALSE, size |-> 0]]]

\* new CyberMySQLOpenAI({cache: {enabled, maxSize: size}}) (lines 91-104):
\* getInstance constructs the cache on its first call only
ConstructOrchestrator(o, enabled, size) ==
    /\ ~probe.orch[o].made
    /\ probe' = [probe EXCEPT !.op = "construct", !.by = o,
                              !.instance = @ \/ enabled,
                              !.orch[o] = [made |-> TRUE, hasCache |-> enabled,
                                           cacheEnabled |-> enabled, size |-> size]]
    /\ IF enabled /\ ~probe.instance
       THEN maxSize' = size /\ memEnabled' = TRUE
       ELSE UNCHANGED <<maxSize, memEnabled>>
    /\ UNCHANGED <<calls, cache, hits, misses, hasCache, cacheEnabled, maxReflections,
                   language, now, dbSchema, started, lastDone, host, hostOps>>

\* whether an orchestrator works on the cache (lines 140, 250, 890, 902)
HoldsCache(o) ==
    probe.orch[o].made /\ probe.orch[o].hasCache /\ probe.orch[o].cacheEnabled

\* a successful query() of the orchestrator stores its result (lines 249-261)
StoreBy(o, q) ==
    /\ HoldsCache(o)
    /\ cache' = CacheSet(cache, memEnabled, maxSize, KeyOf(q), q[2], q[3],
                         SomeRows, MsgExplanation, now)
    /\ probe' = [probe EXCEPT !.op = "store", !.by = o]
    /\ UNCHANGED <<calls, hits, misses, memEnabled, hasCache, cacheEnabled,
                   maxReflections, maxSize, language, now, dbSchema, started,
                   lastDone, host, hostOps>>

\* clearCache (lines 889-894)
ClearCacheBy(o) ==
    /\ HoldsCache(o)
    /\ cache' = <<>>
    /\ hits' = 0
    /\ misses' = 0
    /\ probe' = [probe EXCEPT !.op = "clear", !.by = o]
    /\ UNCHANGED <<calls, memEnabled, hasCache, cacheEnabled, maxReflections,
                   maxSize, language, now, dbSchema, started, lastDone, host, hostOps>>

\* invalidateCacheByTable (lines 901-911)
InvalidateCacheByTableBy(o, table) ==
    /\ HoldsCache(o)
    /\ cache' = InvalidateEntries(cache, table)
    /\ probe' = [probe EXCEPT !.op = "invalidate", !.by = o]
    /\ UNCHANGED <<calls, hits, misses, memEnabled, hasCache, cacheEnabled,
                   maxReflections, maxSize, language, now, dbSchema, started,
                   lastDone, host, hostOps>>

\* setCacheEnabled (lines 917-923) and MemoryCache.setEnabled
SetCacheEnabledBy(o, enabled) ==
    /\ probe.orch[o].made
    /\ probe' = [probe EXCEPT !.op = "setCacheEnabled", !.by = o,
                              !.orch[o].cacheEnabled = enabled]
    /\ IF probe.orch[o].hasCache
       THEN /\ memEnabled' = enabled
            /\ IF enabled THEN UNCHANGED <<cache, hits, misses>>
                          ELSE cache' = <<>> /\ hits' = 0 /\ misses' = 0
       ELSE UNCHANGED <<memEnabled, cache, hits, misses>>
    /\ UNCHANGED <<calls, hasCache, cacheEnabled, maxReflections, maxSize,
                   language, now, dbSchema, started, lastDone, host, hostOps>>

NextShared ==
    \/ \E o \in Orchestrators, enabled \in BOOLEAN, size \in {1, 2} :
          ConstructOrchestrator(o, enabled, size)
    \/ \E o \in Orchestrators, q \in StoreInputs : StoreBy(o, q)
    \/ \E o \in Orchestrators : ClearCacheBy(o)
    \/ \E o \in Orchestrators, t \in Tables : InvalidateCacheByTableBy(o, t)
    \/ \E o \in Orchestrators, enabled \in BOOLEAN : SetCacheEnabledBy(o, enabled)

SpecShared == InitShared /\ [][NextShared]_vars

\* ------------------------------------------- pure functions on their own
\* generateKey, getTTLByQueryType (through set) and validateQuery applied to
\* arguments drawn from bounded sets, one application in a behaviour; probe
\* holds the arguments and the result.
MaxSqlLen == 2         \* words in a statement built freely from SqlWords

\* Questions are written from a skeleton, each piece in one of two ways
\* (variants 1 and 2): a word in small or capital letters, a gap of one or two
\* blanks, a number, an ISO date, and a closing mark that is absent or "?".
Piece(kind, variant) ==
    CASE kind = "word" -> IF variant = 1 THEN <<"s", "o">> ELSE <<"S", "O">>
      [] kind = "gap"  -> IF variant = 1 THEN <<" ">> ELSE <<" ", " ">>
      [] kind = "num"  -> IF variant = 1 THEN <<"5">> ELSE <<"4", "2">>
      [] kind = "date" -> IF variant = 1
                          THEN <<"2", "0", "2", "4", "-", "0", "1", "-", "1", "5">>
                          ELSE <<"1", "9", "9", "9", "-", "1", "2", "-", "3", "1">>
      [] kind = "mark" -> IF variant = 1 THEN <<>> ELSE <<"?">>

RECURSIVE Render(_, _)
Render(skeleton, variants) ==
    IF skeleton = <<>> THEN <<>>
    ELSE Piece(Head(skeleton), Head(variants)) \o Render(Tail(skeleton), Tail(variants))

Skeletons == { <<"word", "mark">>,
               <<"word", "gap", "mark">>,
               <<"word", "gap", "num", "mark">>,
               <<"word", "gap", "date", "mark">> }

\* words statements are built from, and the statements given in full
SqlWords == {"SELECT", "select", "SHOW", "TABLES", "describe", "INFORMATION_SCHEMA.TABLES",
             "COUNT(*)", "SUM(PRICE)", "AVG(PRICE)", "MIN(PRICE)", "MAX(PRICE)",
             "GROUP", "BY", "FROM", "products", "users", "ghosts", "described_at",
             "UPDATE", "update", "DROP", "updated_at",
             "LIMIT", "JOIN", "ON", "credit_limit", "users.age"}

SqlTexts ==
    UNION { [1..n -> SqlWords] : n \in 0..MaxSqlLen }
    \cup { SqlUsers, SqlGhosts, SqlUpdate, SqlCountOrders,
           <<"SELECT", "COUNT(*)", "FROM", "products">>,
           <<"SELECT", "MAX(PRICE)", "FROM", "products">>,
           <<"SELECT", "name", "FROM", "users", "GROUP", "BY", "name">>,
           <<"SELECT", "name", "FROM", "users", "DROP", "TABLE", "users">>,
           <<"SELECT", "*", "FROM", "orders">>,
           <<"SELECT", "name", "FROM", "users", "LIMIT", "5">>,
           <<"SELECT", "credit_limit", "FROM", "users">>,
           <<"SELECT", "users.age", "FROM", "users", "LIMIT", "5">>,
           <<"SELECT", "*", "FROM", "users", "JOIN", "orders", "LIMIT", "5">> }

InitPure ==
    /\ calls = [c \in Calls |-> IdleCall]
    /\ cache = <<>>
    /\ hits = 0
    /\ misses = 0
    /\ cacheEnabled = TRUE
    /\ hasCache = TRUE
    /\ memEnabled = TRUE
    /\ host = FALSE
    /\ maxReflections = DEFAULT_MAX_REFLECTIONS
    /\ maxSize = 1
    /\ language = "en"
    /\ now = 0
    /\ dbSchema = SchemaA
    /\ started = 0
    /\ lastDone = NoCall
    /\ hostOps = 0
    /\ probe = NoProbe

\* generateKey for two questions, languages and fingerprints
ApplyGenerateKey(sk1, v1, l1, h1, sk2, v2, l2, h2) ==
    /\ probe = NoProbe
    /\ LET q1 == Render(sk1, v1)
           q2 == Render(sk2, v2)
       IN probe' = [op |-> "key",
                    skeleton1 |-> sk1, question1 |-> q1,
                    language1 |-> l1, schemaHash1 |-> h1,
                    key1 |-> GenerateKey(q1, l1, h1),
                    skeleton2 |-> sk2, question2 |-> q2,
                    language2 |-> l2, schemaHash2 |-> h2,
                    key2 |-> GenerateKey(q2, l2, h2)]
    /\ UNCHANGED <<cache, hits, misses, memEnabled, now>>
    /\ MemFrame

\* the ttl set() gives an entry (getTTLByQueryType), for a question and a statement
ApplyGetTTLByQueryType(p, sql) ==
    /\ probe = NoProbe
    /\ probe' = [op |-> "ttl", prompt |-> p, sql |-> sql,
                 ttl |-> CacheSet(<<>>, TRUE, maxSize, QueryKey(p, "en", NoValue), "en",
                                  sql, SomeRows, MsgExplanation, now)[1].ttl]
    /\ UNCHANGED <<cache, hits, misses, memEnabled, now>>
    /\ MemFrame

\* the raw texts cleanSqlResponse is applied to: a statement, with or without
\* backtick-quoted identifiers or a trailing comment, bare or between a pair of
\* fences, with or without blanks around it
RawStatements ==
    { SqlUsers,
      <<"SELECT", Backtick, "name", Backtick, "FROM", Backtick, "users", Backtick>>,
      SqlUsers \o <<LineComment>>,
      <<>> }

\* cleanSqlResponse for a raw text made of its parts
ApplyCleanSqlResponse(lead, open, statement, trail) ==
    /\ probe = NoProbe
    /\ LET close == IF open = <<>> THEN <<>> ELSE <<"FENCE">>
           text == lead \o open \o statement \o close \o trail
       IN probe' = [op |-> "clean", text |-> text, statement |-> statement,
                    fenced |-> open # <<>>, cleaned |-> CleanSqlResponse(text)]
    /\ UNCHANGED <<cache, hits, misses, memEnabled, now>>
    /\ MemFrame

\* The prompt templates of the message dictionary (both languages hold the
\* same placeholders in the same order): a message is a sequence of pieces,
\* <<"text", t>> for literal text and <<"hole", name>> for {name}.
Template(key) ==
    IF key = "translateToSQL"
    THEN << <<"text", "rules">>, <<"hole", "businessContext">>,
            <<"hole", "customInstructions">>, <<"text", "schema:">>,
            <<"hole", "schema">>, <<"hole", "relationships">>, <<"hole", "examples">>,
            <<"text", "query:">>, <<"hole", "query">> >>
    ELSE << <<"text", "error:">>, <<"hole", "error">>,
            <<"text", "query:">>, <<"hole", "sql">>,
            <<"text", "schema:">>, <<"hole", "schema">>, <<"hole", "relationships">>,
            <<"hole", "businessContext">>, <<"hole", "examples">>,
            <<"hole", "customInstructions">>, <<"text", "instructions">> >>

\* message.replace(new RegExp("\\{placeholder\\}", "g"), String(value))
RECURSIVE ReplaceHole(_, _, _)
ReplaceHole(message, placeholder, value) ==
    IF message = <<>> THEN <<>>
    ELSE (IF Head(message) = <<"hole", placeholder>> THEN value ELSE <<Head(message)>>)
         \o ReplaceHole(Tail(message), placeholder, value)

\* I18n.getMessageWithReplace: the entries of replacements are applied in
\* their order, each to the message the one before left
RECURSIVE GetMessageWithReplace(_, _)
GetMessageWithReplace(message, replacements) ==
    IF replacements = <<>> THEN message
    ELSE GetMessageWithReplace(
             ReplaceHole(message, Head(replacements)[1], Head(replacements)[2]),
             Tail(replacements))

\* the replacements generateSQL (lines 420-430) and generateReflection (lines
\* 723-732) hand over; an optional section that is absent is the empty string
PromptReplacements(key, question, sql, error, context, relationships, examples) ==
    LET section(present, t) == IF present THEN << <<"text", t>> >> ELSE <<>>
        schema == << <<"text", "users(name)">> >>
    IN IF key = "translateToSQL"
       THEN << <<"schema", schema>>,
               <<"query", << <<"text", question>> >> >>,
               <<"businessContext", section(context, "CONTEXTO DE NEGOCIO")>>,
               <<"relationships", section(relationships, "RELACIONES")>>,
               <<"examples", section(examples, "EJEMPLOS")>> >>
       ELSE << <<"error", << <<"text", error>> >> >>,
               <<"sql", [i \in 1..Len(sql) |-> <<"text", sql[i]>>]>>,
               <<"schema", schema>>,
               <<"relationships", section(relationships, "RELACIONES")>> >>

\* the system prompt of a translation or correction request
ApplyGetMessageWithReplace(key, question, sql, error, context, relationships, examples) ==
    /\ probe = NoProbe
    /\ probe' = [op |-> "prompt", key |-> key, question |-> question, sql |-> sql,
                 error |-> error, context |-> context,
                 relationships |-> relationships, examples |-> examples,
                 message |-> GetMessageWithReplace(
                                 Template(key),
                                 PromptReplacements(key, question, sql, error, context,
                                                    relationships, examples))]
    /\ UNCHANGED <<cache, hits, misses, memEnabled, now>>
    /\ MemFrame

\* validateQuery for a statement and a schema
ApplyValidateQuery(sql, schema) ==
    /\ probe = NoProbe
    /\ probe' = [op |-> "validate", sql |-> sql, schema |-> schema,
                 valid |-> ValidateQueryValid(sql, schema),
                 errors |-> ValidateQueryErrors(sql, schema),
                 warnings |-> ValidateQueryWarnings(sql, schema)]
    /\ UNCHANGED <<cache, hits, misses, memEnabled, now>>
    /\ MemFrame

\* new CyberMySQLOpenAI(config): validateConfig gives its errors and the
\* constructor throws when there is one; otherwise the ceiling is
\* config.maxReflections || DEFAULT_MAX_REFLECTIONS (cfg = 0 also stands for a
\* configuration without maxReflections)
ApplyConstructor(apiKey, user, cfg) ==
    /\ probe = NoProbe
    /\ LET errors == (IF apiKey THEN {} ELSE {"openai.apiKey"})
                         \cup (IF user THEN {} ELSE {"database.user"})
       IN IF errors # {}
          THEN /\ probe' = [op |-> "construct", config |-> cfg, thrown |-> TRUE]
               /\ UNCHANGED maxReflections
          ELSE /\ probe' = [op |-> "construct", config |-> cfg, thrown |-> FALSE]
               /\ maxReflections' = EffectiveMaxReflections(cfg)
    /\ UNCHANGED <<calls, cache, hits, misses, memEnabled, hasCache, cacheEnabled,
                   maxSize, language, now, dbSchema, started, lastDone, host, hostOps>>

\* the second key is made for every language and fingerprint, the first for
\* every language and the fingerprint of SchemaA
\* (arguments are only drawn while nothing has been applied)
NextPure ==
    \/ \E sk1 \in IF probe = NoProbe THEN Skeletons ELSE {}, sk2 \in Skeletons :
          \E v1 \in [1..Len(sk1) -> {1, 2}], v2 \in [1..Len(sk2) -> {1, 2}] :
             \E l1 \in Languages, l2 \in Languages, s2 \in Schemas :
                ApplyGenerateKey(sk1, v1, l1, GenerateSchemaHash(SchemaA),
                                 sk2, v2, l2, GenerateSchemaHash(s2))
    \/ \E p \in IF probe = NoProbe THEN Prompts ELSE {}, sql \in SqlTexts :
          ApplyGetTTLByQueryType(p, sql)
    \/ \E sql \in IF probe = NoProbe THEN SqlTexts ELSE {}, schema \in Schemas :
          ApplyValidateQuery(sql, schema)
    \/ \E lead \in IF probe = NoProbe THEN {<<>>, <<" ">>} ELSE {},
          trail \in {<<>>, <<" ">>} :
          \E open \in {<<>>} \cup { <<f>> : f \in FenceTokens },
             statement \in RawStatements :
             ApplyCleanSqlResponse(lead, open, statement, trail)
    \/ \E key \in IF probe = NoProbe THEN {"translateToSQL", "fixSQLError"} ELSE {},
          question \in Prompts, sql \in SqlCandidates, error \in {ErrDb, ErrReadOnly} :
          \E context \in BOOLEAN, relationships \in BOOLEAN, examples \in BOOLEAN :
             ApplyGetMessageWithReplace(key, question, sql, error, context,
                                        relationships, examples)
    \/ \E apiKey \in IF probe = NoProbe THEN BOOLEAN ELSE {}, user \in BOOLEAN :
          \E cfg \in -MaxCeiling..MaxCeiling : ApplyConstructor(apiKey, user, cfg)

SpecPure == InitPure /\ [][NextPure]_vars

\* -------------------------------------------------------------- properties
Returned(c) == calls[c].pc = "returned"
CacheEntries(cs) == {cs[i] : i \in 1..Len(cs)}
Fresh(c) == Returned(c) /\ ~calls[c].fromCache

\* statements handed to executeReadOnlyQuery so far, the one in flight included
InFlight(rec) ==
    IF rec.pc = "exec0" THEN <<rec.sql>>
    ELSE IF rec.pc = "exec" THEN <<rec.pending>> ELSE <<>>
Submitted(rec) == [i \in 1..Len(rec.log) |-> rec.log[i].sql] \o InFlight(rec)

EveryExecutionFailed(rec) ==
    /\ Len(rec.log) >= 1
    /\ \A i \in 1..Len(rec.log) : ~rec.log[i].ok

\* C1: when every database execution of a call raises and every correction
\* request yields a candidate, the call returns success=false with attempts
\* equal to the retry ceiling.
C1_AttemptsEqualCeiling ==
    \A c \in Calls :
        (Fresh(c) /\ EveryExecutionFailed(calls[c]) /\ calls[c].refFaults = 0)
        => (~calls[c].success /\ calls[c].attempts = maxReflections)

\* C2: an Exhausted call returns success=false, no rows, the complete ordered
\* list of attempt records and, as sql, the last statement that was executed.
C2_ExhaustedReportsLastSql ==
    \A c \in Calls :
        (Fresh(c) /\ ~calls[c].success)
        => /\ calls[c].results = <<>>
           /\ Len(calls[c].reflections) = Len(calls[c].log) - 1
           /\ \A i \in 1..Len(calls[c].reflections) :
                 calls[c].reflections[i].fixAttempt = calls[c].log[i + 1].sql
           /\ calls[c].sql = Last(calls[c].log).sql

\* C3: a statement for which validateQuery says valid=false is never sent to
\* the database, in the first attempt or in a correction attempt.
C3_InvalidNeverExecuted ==
    \A c \in Calls :
        \A i \in 1..Len(Submitted(calls[c])) :
            PassesReadOnlyGate(Submitted(calls[c])[i])
            => ValidateQueryValid(Submitted(calls[c])[i], calls[c].schema)

FailedOnceThenFixed(rec) ==
    /\ Len(rec.log) = 2
    /\ ~rec.log[1].ok
    /\ rec.log[2].ok

C5_ReflectionsWithinCeiling ==
    \A c \in Calls : Len(calls[c].reflections) <= maxReflections

C5_Witness ==
    \E c \in Calls :
        /\ Fresh(c)
        /\ Len(calls[c].reflections) = maxReflections
        /\ calls[c].refFaults = 0
        /\ ~calls[c].success

\* executions a call has started so far
ExecCount(rec) == Len(rec.log) + Len(InFlight(rec))

\* C6: a call always reaches a terminal state (Succeeded, Exhausted or a
\* thrown failure) after at most N correction cycles and at most N + 1
\* executions, every external call eventually returning or raising.
C6_TerminatesWithinCeiling ==
    /\ [](\A c \in Calls :
            /\ calls[c].cycles <= maxReflections
            /\ ExecCount(calls[c]) <= maxReflections + 1)
    /\ \A c \in Calls : Active(c) ~> (calls[c].pc \in {"returned", "thrown"})

C6_Witness ==
    \E c \in Calls :
        /\ Returned(c)
        /\ calls[c].cycles = maxReflections
        /\ Len(calls[c].log) = maxReflections + 1

C10_OnlySuccessStored ==
    [][/\ \A e \in CacheEntries(cache') \ CacheEntries(cache) :
            \E c \in Calls :
                /\ calls[c].pc # "returned"
                /\ calls'[c].pc = "returned"
                /\ calls'[c].success
                /\ e.sql = calls'[c].sql
                /\ e.results = calls'[c].results
       /\ \A c \in Calls :
            (/\ calls[c].pc \notin {"returned", "thrown"}
             /\ \/ calls'[c].pc = "thrown"
                \/ calls'[c].pc = "returned" /\ ~calls'[c].success)
            => CacheEntries(cache') \subseteq CacheEntries(cache)]_vars

C10_Witness ==
    \E c \in Calls :
        /\ Fresh(c)
        /\ calls[c].stored
        /\ \E e \in CacheEntries(cache) : e.sql = calls[c].sql

\* C11: whatever the interleaving of query() calls and host operations, and
\* also when entries are stored without the clock advancing between them, the
\* cache never holds more entries than its configured capacity.
C11_EntriesWithinCapacity == Len(cache) <= maxSize

\* C12: starting from an empty cache, once maxSize + 1 entries with pairwise
\* distinct keys have been stored the cache holds exactly maxSize entries:
\* every stored entry but the first one, which has been evicted.
C12_OldestEvictedAtCapacity ==
    (probe.fresh /\ Len(probe.run) = maxSize + 1)
        => /\ Len(cache) = maxSize
           /\ [i \in 1..Len(cache) |-> cache[i].key] = Tail(probe.run)

\* C13: a lookup of a key whose entry is older than its TTL is a miss, removes
\* that entry (one entry fewer, the key gone) and adds one to the miss
\* counter; a lookup of an entry still within its TTL returns that entry,
\* removes nothing and adds one to the hit counter.
C13_ExpiredLookupEvicts ==
    [][ (probe'.op = "get" /\ memEnabled /\ FindKey(cache, probe'.key) # 0)
          => LET e == cache[FindKey(cache, probe'.key)] IN
             IF now - e.timestamp > e.ttl
             THEN /\ ~probe'.found
                  /\ Len(cache') = Len(cache) - 1
                  /\ FindKey(cache', probe'.key) = 0
                  /\ CacheEntries(cache') = CacheEntries(cache) \ {e}
                  /\ misses' = misses + 1
                  /\ hits' = hits
             ELSE /\ probe'.found
                  /\ probe'.entry = e
                  /\ cache' = cache
                  /\ hits' = hits + 1
                  /\ misses' = misses ]_vars

\* an expired entry has been looked up: a miss on a key the cache held
C13_Witness ==
    /\ probe.op = "get"
    /\ memEnabled
    /\ probe.held
    /\ ~probe.found
    /\ misses > 0
    /\ FindKey(cache, probe.key) = 0

\* C14: whenever the cache is switched off it holds no entry and a lookup of
\* any key finds nothing; a call that passes its lookup while the cache is off
\* is not served from it, and a call that started with the cache on and
\* finishes after it was switched off leaves it empty.
C14_DisabledHoldsNothing ==
    /\ [](~cacheEnabled =>
            /\ cache = <<>>
            /\ \A p \in Prompts, l \in Languages, s \in Schemas :
                  ~CacheGet(cache, memEnabled,
                            QueryKey(p, l, GenerateSchemaHash(s)), now).found)
    /\ [][\A c \in Calls :
            (~cacheEnabled /\ calls[c].pc = "schema" /\ calls'[c].pc # "schema")
                => (~calls'[c].fromCache /\ calls'[c].pc # "returned")]_vars

\* a call begun with the cache on has returned success=true after the cache
\* was switched off, and nothing was stored
C14_Witness ==
    \E c \in Calls :
        /\ Returned(c)
        /\ calls[c].success
        /\ ~calls[c].quiet
        /\ hasCache
        /\ ~cacheEnabled
        /\ ~memEnabled
        /\ ~calls[c].stored
        /\ cache = <<>>

\* C19: once the cache is switched on, however the orchestrator was
\* constructed (with cache.enabled=false too, where switching on at run time is
\* the only way to get there), a successful query(q) stores its result and
\* the immediately repeated query(q) is served from the cache.
C19_EnabledAtRuntimeCaches ==
    \A c \in Calls :
        (/\ Returned(c)
         /\ cacheEnabled
         /\ calls[c].prev # NoCall
         /\ ~calls[c].prev.fromCache
         /\ calls[c].prev.success)
        => /\ calls[c].fromCache
           /\ calls[c].sql = calls[c].prev.sql
           /\ calls[c].results = calls[c].prev.results

\* C15: when invalidateByTable(name) returns k, no entry left has the name
\* anywhere in its SQL text (letter case ignored), k is the number of entries
\* that went away, every other entry is still there, and a lookup of the key
\* of an entry whose SQL named the table finds nothing.
C15_InvalidationRemovesMatches ==
    [][ probe'.op = "invalidate"
          => /\ \A i \in 1..Len(cache') :
                   ~TextIncludes(cache'[i].sql, UpperToken(probe'.table))
             /\ probe'.k = Len(cache) - Len(cache')
             /\ \A i \in 1..Len(cache) :
                   IF TextIncludes(cache[i].sql, UpperToken(probe'.table))
                   THEN ~CacheGet(cache', memEnabled', cache[i].key, now').found
                   ELSE cache[i] \in CacheEntries(cache') ]_vars

\* a name written in capitals has removed entries whose SQL has it in small
\* letters, and another entry has stayed
C15_Witness ==
    /\ probe.op = "invalidate"
    /\ probe.table = "USERS"
    /\ probe.k >= 1
    /\ Len(cache) >= 1

\* what a lookup under key k2 answers when one entry, stored under k1, is held
StoredThenFound(k1, k2) ==
    CacheGet(CacheSet(<<>>, TRUE, 1, k1, "en", SqlUsers, SomeRows, MsgExplanation, 0),
             TRUE, k2, 0).found

\* C16: two questions written from the same skeleton (differing in letter
\* case, length of the blank runs, closing punctuation, digits of a date and
\* digits of a number only) get the same key for the same language and
\* fingerprint, and a lookup with one finds the entry stored with the other.
C16_VariantsShareKey ==
    (/\ probe.op = "key"
     /\ probe.skeleton1 = probe.skeleton2
     /\ probe.language1 = probe.language2
     /\ probe.schemaHash1 = probe.schemaHash2)
    => /\ probe.key1 = probe.key2
       /\ StoredThenFound(probe.key1, probe.key2)

\* C17: the key depends only on the normalized question, the language and the
\* fingerprint, and keys made with different fingerprints or different
\* languages differ whatever the questions, so that an entry stored under one
\* is not found under the other.
C17_KeySeparatesFingerprints ==
    probe.op = "key"
    => /\ (/\ NormalizePrompt(probe.question1) = NormalizePrompt(probe.question2)
           /\ probe.language1 = probe.language2
           /\ probe.schemaHash1 = probe.schemaHash2)
          => probe.key1 = probe.key2
       /\ (probe.language1 # probe.language2 \/ probe.schemaHash1 # probe.schemaHash2)
          => /\ probe.key1 # probe.key2
             /\ ~StoredThenFound(probe.key1, probe.key2)

\* one question, one language, two fingerprints
C17_Witness ==
    /\ probe.op = "key"
    /\ probe.question1 = probe.question2
    /\ probe.language1 = probe.language2
    /\ probe.schemaHash1 # probe.schemaHash2
    /\ probe.key1 # probe.key2

\* the text has the shape of a metadata statement
MetadataText(sql) ==
    \/ TextIncludesPair(sql, "SHOW", "TABLES")
    \/ TextIncludes(sql, "DESCRIBE")
    \/ TextIncludes(sql, "INFORMATION_SCHEMA")

C20_RejectionNamesKeyword ==
    (probe.op = "validate" /\ probe.sql # <<>>)
    => LET sql      == probe.sql
           notRead  == UpperToken(sql[1]) \notin ReadVerbs
           denied   == { d \in DangerousKeywords :
                           \E i \in 1..Len(sql) : UpperToken(sql[i]) = d }
           blocked  == denied \cup (IF notRead THEN {UpperToken(sql[1])} ELSE {})
       IN (notRead \/ denied # {})
          => /\ ~probe.valid
             /\ \E e \in probe.errors : \E k \in blocked : SeqContains(e, k)

\* C21: warnings never block.  The verdict is valid exactly when it has no
\* error, and a SELECT on tables of the schema with no LIMIT clause, no
\* aggregate function and no denylisted keyword is valid with at least one
\* warning.
C21_WarningsNeverBlock ==
    probe.op = "validate"
    => LET sql == probe.sql
           words == { UpperToken(sql[i]) : i \in 1..Len(sql) }
           tables == ExtractTablesFromSQL(sql)
           aggregate == \E w \in words :
                           TextParts(w) \cap {"COUNT(", "SUM(", "AVG(", "MAX(", "MIN("} # {}
       IN /\ probe.valid <=> probe.errors = {}
          /\ ( /\ sql # <<>>
               /\ UpperToken(sql[1]) = "SELECT"
               /\ tables # {}
               /\ \A t \in tables : UpperToken(t) \in { UpperToken(n) : n \in probe.schema }
               /\ words \cap DangerousKeywords = {}
               /\ "LIMIT" \notin words
               /\ ~aggregate )
             => (probe.valid /\ probe.warnings # {})

\* C22: in every translation attempt (and every correction attempt) the
\* structured request is issued first and the text request only once the
\* structured request of that attempt has failed; an attempt issues at most one
\* request of each kind; the statement an attempt hands over carries a
\* confidence when the structured request produced it and none when the text
\* request did.
C22_StructuredFirstTextAfter ==
    [][\A c \in Calls :
          LET pc == calls[c].pc
              pc2 == calls'[c].pc
          IN /\ (pc2 = "gen_fc" /\ pc # pc2) => pc = "schema"
             /\ (pc2 = "gen_text" /\ pc # pc2)
                   => (pc = "gen_fc" /\ calls'[c].fcError \in FcErrors)
             /\ (pc2 = "ref_text" /\ pc # pc2)
                   => (pc = "ref_fc" /\ calls'[c].fcError \in FcErrors)
             /\ pc = "gen_text" => pc2 \in {"gen_text", "exec0", "thrown"}
             /\ pc = "ref_text"
                   => /\ pc2 \notin {"gen_fc", "gen_text"}
                      /\ pc2 = "ref_fc" => calls'[c].cycles = calls[c].cycles + 1
             /\ (pc \in {"gen_fc", "gen_text"} /\ pc2 = "exec0")
                   => (calls'[c].confidence <=> pc = "gen_fc")
             /\ (pc \notin {"idle", "schema", "gen_fc", "gen_text", "returned", "thrown"}
                 /\ pc2 \notin {"idle"})
                   => calls'[c].confidence = calls[c].confidence]_vars

\* the text request of a translation attempt has answered after the structured
\* request failed: its statement is about to be executed, without a confidence
C22_Witness ==
    \E c \in Calls :
        /\ calls[c].pc = "exec0"
        /\ ~calls[c].confidence
        /\ calls[c].sql = SqlUsers

C24_QuotedIdentifiersKept ==
    ( /\ probe.op = "clean"
      /\ probe.statement # <<>>
      /\ ~SeqContains(probe.statement, LineComment) )
    => probe.cleaned = probe.statement

\* C25: the prompt sent with a translation or a correction request holds no
\* literal {placeholder} of its template: a placeholder the caller supplies no
\* value for is replaced by the empty string.
C25_NoPlaceholderLeft ==
    probe.op = "prompt"
    => \A i \in 1..Len(probe.message) : probe.message[i][1] # "hole"

\* C26: every result query() returns, Succeeded or Exhausted, carries an
\* explanation that is not empty, also when the explanation request failed: the
\* failure never makes the call reject, the generic message takes its place.
C26_ExplanationAlwaysPresent ==
    /\ [](\A c \in Calls :
            Returned(c)
            => calls[c].naturalResponse \in {MsgExplanation, MsgNoResults, MsgQueryCompleted})
    /\ [][\A c \in Calls :
            calls[c].pc \in {"nat", "det"}
            => calls'[c].pc \in {"nat", "det", "returned"}]_vars

\* a call whose statement ran and gave rows has returned with the generic
\* message in place of the explanation
C26_Witness ==
    \E c \in Calls :
        /\ Returned(c)
        /\ calls[c].success
        /\ calls[c].results # <<>>
        /\ calls[c].naturalResponse = MsgQueryCompleted

\* C27: in query() the lookup is made when the schema fetch has resolved and
\* before any translation request.  A hit returns at once (fromCache=true,
\* success=true, attempts 0, no attempt records) with no completion request,
\* no execution and no explanation request; on a miss an entry is stored only
\* by the step that returns the result, after the execution and the
\* explanation.
C27_LookupFirstStoreLast ==
    [][\A c \in Calls :
          LET pc == calls[c].pc
              pc2 == calls'[c].pc
              rec2 == calls'[c]
          IN /\ (hits' = hits + 1 \/ misses' = misses + 1)
                   => (pc = "schema" /\ pc2 \in {"returned", "gen_fc"})
             /\ (pc2 = "gen_fc" /\ pc # pc2)
                   => (pc = "schema" /\ hits' = hits)
             /\ hits' = hits + 1
                   => /\ pc2 = "returned"
                      /\ rec2.fromCache /\ rec2.success
                      /\ rec2.attempts = 0 /\ rec2.reflections = <<>>
                      /\ rec2.log = <<>>
                      /\ \E e \in CacheEntries(cache) :
                            /\ e.sql = rec2.sql
                            /\ e.results = rec2.results
                            /\ e.naturalResponse = rec2.naturalResponse
             /\ (pc2 = "returned" /\ pc # pc2 /\ rec2.fromCache) => hits' = hits + 1
             /\ ~(CacheEntries(cache') \subseteq CacheEntries(cache))
                   => /\ pc \in {"nat", "det"} /\ pc2 = "returned"
                      /\ rec2.log # <<>> /\ rec2.log[Len(rec2.log)].ok
                      /\ rec2.naturalResponse # NoValue]_vars

\* a call was answered from the cache: one lookup counted as a hit, nothing
\* executed, no attempt
C27_Witness ==
    \E c \in Calls :
        /\ Returned(c)
        /\ calls[c].fromCache
        /\ hits = 1
        /\ calls[c].log = <<>>
        /\ calls[c].attempts = 0

\* C28: a call made with bypassCache is never served from the cache, also
\* when an entry for its question is there and has not expired: it translates
\* and executes afresh, returns fromCache=false, and no lookup of it is counted
\* as a hit or a miss.
C28_BypassNeverServed ==
    /\ [](\A c \in Calls :
            (Returned(c) /\ calls[c].bypassCache)
            => (~calls[c].fromCache /\ calls[c].log # <<>>))
    /\ [][\A c \in Calls :
            (calls[c].pc = "schema" /\ calls'[c].pc # "schema" /\ calls'[c].bypassCache)
            => /\ calls'[c].pc = "gen_fc"
               /\ hits' = hits /\ misses' = misses
               /\ cache' = cache]_vars

\* a call with bypassCache is waiting for its translation while the cache
\* holds an unexpired entry for its question
C28_Witness ==
    \E c \in Calls :
        /\ calls[c].pc = "gen_fc"
        /\ calls[c].bypassCache
        /\ hasCache /\ cacheEnabled
        /\ CacheGet(cache, memEnabled,
                    QueryKey(calls[c].prompt, language, calls[c].schemaHash), now).found

\* C29: executeSQL is a bypass.  It issues no translation and no correction
\* request, it neither reads nor changes the cache or its counters, it never
\* rejects: an error of the gate or of the database comes back as
\* success=false with no rows and a message, and the statement is not sent a
\* second time.
C29_ExecuteSQLBypasses ==
    /\ [](probe.op = "executeSQL"
            => /\ probe.pc \in {"exec", "nat", "det", "returned"}
               /\ \A i \in 1..Len(probe.requests) :
                     probe.requests[i] \in {"explain", "explain detailed"}
               /\ Len(probe.sent) <= 1
               /\ (probe.pc = "returned" /\ ~probe.success)
                     => /\ probe.results = <<>>
                        /\ probe.naturalResponse \in {ErrDb, ErrReadOnly}
                        /\ probe.requests = <<>>)
    /\ [][probe' # probe
            => /\ cache' = cache /\ hits' = hits /\ misses' = misses
               /\ calls' = calls
               /\ (probe.op = "executeSQL" /\ probe.pc = "exec")
                     => probe'.pc \in {"nat", "returned"}]_vars

\* with an entry in the cache and the cache on, a statement given to
\* executeSQL was refused by the database and the failure was returned
C29_Witness ==
    /\ probe.op = "executeSQL"
    /\ probe.pc = "returned"
    /\ ~probe.success
    /\ probe.sent # <<>>
    /\ cache # <<>> /\ cacheEnabled

\* C30: every statement query() or executeSQL() sends to the database server
\* begins, blanks and the case of letters set aside, with SELECT, SHOW,
\* DESCRIBE, DESC or EXPLAIN; for any other statement the error is raised
\* before the server is contacted, and in query() that error starts or
\* continues the correction loop as an error of the server does.
C30_OnlyReadsReachServer ==
    /\ [](LET reads(sql) == sql # <<>> /\ UpperToken(sql[1]) \in
                                         {"SELECT", "SHOW", "DESCRIBE", "DESC", "EXPLAIN"}
          IN /\ \A c \in Calls : \A i \in 1..Len(calls[c].log) :
                   LET e == calls[c].log[i]
                   IN IF reads(e.sql) THEN e.ok \/ e.out = ErrDb
                      ELSE ~e.ok /\ e.out = ErrReadOnly
             /\ probe.op = "executeSQL"
                   => /\ \A i \in 1..Len(probe.sent) : reads(probe.sent[i])
                      /\ (probe.pc = "returned" /\ ~reads(CleanSqlResponse(probe.given)))
                            => (probe.sent = <<>> /\ probe.naturalResponse = ErrReadOnly))
    /\ [][\A c \in Calls :
            ( /\ calls[c].pc = "exec0" /\ calls'[c].pc # "exec0"
              /\ calls[c].sql = <<>> \/ UpperToken(calls[c].sql[1]) \notin
                                           {"SELECT", "SHOW", "DESCRIBE", "DESC", "EXPLAIN"} )
            => /\ calls'[c].pc = "ref_fc"
               /\ calls'[c].attempts = 1
               /\ calls'[c].errorMessage = ErrReadOnly]_vars

\* a query() call whose first statement was an UPDATE is in its correction
\* loop with the error of the gate, the statement never sent
C30_Witness ==
    \E c \in Calls :
        /\ calls[c].pc = "ref_fc"
        /\ calls[c].errorMessage = ErrReadOnly
        /\ calls[c].log = << [sql |-> SqlUpdate, ok |-> FALSE, out |-> ErrReadOnly] >>

\* C31: the hit and miss counts that stats() reports are cumulative: after any
\* sequence of operations hits + misses is the number of lookups made while
\* the cache was enabled, the hit rate is derived from the two counts (0 when
\* there was no lookup), and the entry count is the number of entries stored.
C31_StatsCumulative ==
    LET stats == GetStats(cache, hits, misses) IN
    /\ stats.hits + stats.misses = probe.lookups
    /\ stats.hitRate = IF probe.lookups = 0 THEN [num |-> 0, den |-> 1]
                       ELSE [num |-> stats.hits * 100, den |-> probe.lookups]
    /\ stats.totalEntries = Len(cache)

\* C32: the ceiling of every orchestrator that was constructed is a positive
\* integer: the configured maxReflections when one is given, the default 3
\* otherwise; a configured zero or negative value never becomes the ceiling.
C32_CeilingPositive ==
    (probe.op = "construct" /\ ~probe.thrown)
    => /\ maxReflections \in Nat \ {0}
       /\ probe.config > 0 => maxReflections = probe.config
       /\ probe.config = 0 => maxReflections = DEFAULT_MAX_REFLECTIONS

\* C33: a failure of the foreign-key query is not fatal: the schema fetch goes
\* on to the columns with no foreign key in the snapshot, and the call
\* proceeds; a failure of the query for the tables or of a query for the
\* columns makes the schema fetch, and with it the call, fail.
C33_ForeignKeyFailureNonFatal ==
    /\ [][\A c \in Calls :
            LET pc  == calls[c].pc
                pc2 == calls'[c].pc
            IN /\ (pc = "fks" /\ pc2 # pc)
                  => /\ pc2 = "schema"
                     /\ calls'[c].fault = NoValue
                     /\ calls'[c].foreignKeys \in {<<>>, DbForeignKeys(dbSchema)}
               /\ (pc \in {"tables", "schema"} /\ pc2 = "thrown")
                  => /\ calls'[c].thrown = ErrSchema
                     /\ calls'[c].fault = "schema"
               /\ (pc = "schema" /\ pc2 \notin {"schema", "thrown"})
                  => /\ calls'[c].schema = dbSchema
                     /\ calls'[c].foreignKeys = calls[c].foreignKeys]_vars
    /\ [](\A c \in Calls :
            calls[c].fault = "schema"
            => calls[c].pc = "thrown" /\ calls[c].log = <<>>)

C33_Witness ==
    \E c \in Calls :
        /\ Fresh(c)
        /\ calls[c].success
        /\ calls[c].schema = SchemaB
        /\ DbForeignKeys(calls[c].schema) # <<>>
        /\ calls[c].foreignKeys = <<>>

\* C34: in every correction cycle the correction request holds the statement
\* whose execution failed most recently (the original one in the first cycle,
\* the candidate of the cycle before afterwards) and the error text that
\* this failed execution raised.
C34_RequestNamesLastFailure ==
    \A c \in Calls :
        (calls[c].pc \in {"ref_fc", "ref_text"} /\ calls[c].log # <<>>)
        => LET failed == calls[c].log[Len(calls[c].log)]
           IN /\ ~failed.ok
              /\ CorrectionRequest(calls[c]).sql = failed.sql
              /\ CorrectionRequest(calls[c]).error = failed.out

\* what an orchestrator sees of its cache: the entries, whether the cache is
\* switched on and its capacity
CacheSeenBy(o) ==
    IF probe.orch[o].hasCache
    THEN [entries |-> cache, enabled |-> memEnabled, capacity |-> maxSize]
    ELSE [entries |-> <<>>, enabled |-> FALSE, capacity |-> probe.orch[o].size]

\* C35: the cache belongs to its orchestrator: an operation on one
\* orchestrator (a store, clearCache, invalidateCacheByTable, setCacheEnabled,
\* its construction with its own capacity) never changes the entries, the
\* enabled state or the capacity that another orchestrator sees, and every
\* orchestrator with a cache sees the capacity it was configured with.
C35_CachePerOrchestrator ==
    /\ [](\A o \in Orchestrators :
            HoldsCache(o) => CacheSeenBy(o).capacity = probe.orch[o].size)
    /\ [][\A o \in Orchestrators :
            (probe.orch[o].made /\ probe'.by # o)
            => CacheSeenBy(o)' = CacheSeenBy(o)]_vars

\* C36: while the cleanup interval is set (positive at construction, cache
\* not destroyed) every entry older than its TTL is eventually removed (an
\* entry older than its TTL stays so until it is removed, so again and again
\* the cache holds no such entry), and the periodic cleanup removes no entry
\* that is still within its TTL: what it leaves is exactly the entries not
\* older than their TTL.
C36_ExpiredEventuallyRemoved ==
    /\ []<>(\/ ~probe.timer
            \/ \A i \in 1..Len(cache) : now - cache[i].timestamp <= cache[i].ttl)
    /\ [][probe'.op = "cleanup" /\ (probe.op # "cleanup" \/ cache' # cache)
          => /\ \A i \in 1..Len(cache) :
                   now - cache[i].timestamp <= cache[i].ttl
                   => \E j \in 1..Len(cache') : cache'[j] = cache[i]
             /\ \A j \in 1..Len(cache') :
                   /\ now - cache'[j].timestamp <= cache'[j].ttl
                   /\ \E i \in 1..Len(cache) : cache[i] = cache'[j]]_vars

\* the periodic cleanup has removed an entry and left another in place
C36_Witness ==
    /\ probe.op = "cleanup"
    /\ probe.timer
    /\ probe.k > 0
    /\ cache # <<>>

\* C37: the entry a call stores is keyed by the language and the schema
\* fingerprint the call used for its lookup and its prompts, also when
\* setLanguage() is invoked while the call is suspended: no entry is stored
\* under another language than the one the call started with.
C37_StoredUnderCallLanguage ==
    [][\A c \in Calls :
          (calls'[c].stored /\ ~calls[c].stored)
          => LET rec == calls[c]
                 i   == FindKey(cache', QueryKey(rec.prompt, rec.lang, rec.schemaHash))
             IN /\ i # 0
                /\ cache'[i].language = rec.lang
                /\ cache'[i].sql = rec.sql
                /\ cache'[i].timestamp = now]_vars

\* C38: once invalidateCacheByTable(T) or clearCache() has returned, no
\* result that was read from the database before it (for clearCache any
\* result, for invalidateCacheByTable one of a statement on T) is served from
\* the cache, also when a call is in flight across the invalidation.
C38_NothingOlderThanInvalidationServed ==
    [][\A c \in Calls :
          (~calls[c].fromCache /\ calls'[c].fromCache)
          => LET served == cache[FindKey(cache, QueryKey(calls[c].prompt, language,
                                                        calls'[c].schemaHash))]
             IN ~("outdated" \in DOMAIN served /\ served.outdated)]_vars

\* C39: a store for a key that is already present replaces the entry of that
\* key and leaves every other entry in place, so the number of entries is
\* unchanged, also when the cache is at capacity.
C39_RestoreKeepsOthers ==
    [][(probe'.op = "set" /\ memEnabled /\ FindKey(cache, probe'.key) # 0)
          => /\ Len(cache') = Len(cache)
             /\ FindKey(cache', probe'.key) # 0
             /\ cache'[FindKey(cache', probe'.key)].timestamp = now
             /\ \A i \in 1..Len(cache) :
                   cache[i].key # probe'.key
                   => \E j \in 1..Len(cache') : cache'[j] = cache[i]]_vars

\* d holds exactly the entries of c that are not gone, unchanged and in order
KeptAfter(c, d, gone(_)) ==
    /\ \A i \in 1..Len(c) : ~gone(c[i]) => \E j \in 1..Len(d) : d[j] = c[i]
    /\ \A j \in 1..Len(d) : \E i \in 1..Len(c) : c[i] = d[j] /\ ~gone(c[i])
    /\ \A j, k \in 1..Len(d) :
          j < k => \E i, l \in 1..Len(c) : i < l /\ c[i] = d[j] /\ c[l] = d[k]

\* C40: cache operations change only what they name.  invalidateByTable(T)
\* and the periodic cleanup remove nothing but the matching / expired entries:
\* every other entry stays, with all its fields (timestamp and ttl included),
\* in the same order, and the hit and miss counters keep their values.  A
\* lookup that hits leaves the entries as they were and the miss counter
\* alone, and adds one to the hit counter.
C40_OperationsChangeOnlyWhatTheyName ==
    [][/\ probe'.op = "invalidate"
          => /\ KeptAfter(cache, cache',
                          LAMBDA e : TextIncludes(e.sql, UpperToken(probe'.table)))
             /\ UNCHANGED <<hits, misses, memEnabled, maxSize>>
       /\ probe'.op = "cleanup"
          => /\ KeptAfter(cache, cache', LAMBDA e : now - e.timestamp > e.ttl)
             /\ UNCHANGED <<hits, misses, memEnabled, maxSize>>
       /\ (probe'.op = "get" /\ probe'.found)
          => /\ cache' = cache
             /\ hits' = hits + 1
             /\ UNCHANGED <<misses, memEnabled, maxSize>>]_vars

C40_Witness ==
    /\ probe.op = "invalidate"
    /\ probe.k > 0
    /\ cache # <<>>
    /\ hits > 0
    /\ misses > 0

====
